---- MODULE Spec2Model ----
(***************************************************************************)
(* herd: the message-driven orchestrator (internal/tui), the state-file    *)
(* store and its watcher (internal/state) and session discovery            *)
(* (internal/session), modelled as one state machine.                      *)
(*                                                                         *)
(* The bubbletea runtime is modelled by two collections: `pending` holds   *)
(* the commands returned by Update that have not run yet (each runs in its *)
(* own goroutine, so they run in any order), `inbox` holds the messages    *)
(* produced by commands that ran and that Update has not processed yet.    *)
(* Timer commands and user input read and write nothing when they fire, so *)
(* firing and processing them is one step.                                 *)
(***************************************************************************)
EXTENDS Bags, FiniteSets, Integers, Sequences, TLC

\* ── Bounds ────────────────────────────────────────────────────────────────
MaxInput == 4       \* user inputs (keys, pointer, resize) processed in a run
MaxHook == 3        \* hook writes in a run
MaxDup == 3         \* copies of one command that may be in flight at once
MaxInbox == 2       \* result messages waiting to be processed
MaxFs == 4          \* file-system notifications waiting in the watcher
MaxErr == 3         \* errors fsnotify reports in a run
EventsCap == 2      \* capacity of Watcher.Events (16 in the source, scaled)
ErrorsCap == 2      \* capacity of Watcher.Errors (4 in the source, scaled)
MaxPin == 2         \* largest pin counter handed out in a run
MaxVp == 2          \* largest viewport size a resize of the terminal gives
MaxY == 5           \* largest screen line of a pointer click
DataLen == 2        \* chunks in which os.WriteFile puts a record on disk
MaxClock == 2       \* latest time the clock reaches in a run

\* ── Universe ──────────────────────────────────────────────────────────────
InitialPanes == <<"%1", "%2">>
LaunchPanes == <<"%3", "%4">>
AllPanes == {"%1", "%2", "%3", "%4"}
PaneOrder == <<"%1", "%2", "%3", "%4">>
SessionIDs == <<"a", "b">>
PaneOfID == [id \in {"a", "b"} |-> IF id = "a" THEN "%1" ELSE "%2"]
HookStates == {"working", "waiting"}
Contents == {"x", "y"}
GroupNames == {"g"}
Labels == {"n"}
Queries == {"a", "2"}
\* panes NewWindow can create in a run
MaxLaunch == Len(LaunchPanes)

\* ── Small helpers ─────────────────────────────────────────────────────────
maxInt(a, b) == IF a > b THEN a ELSE b

SetMax(S) == CHOOSE x \in S : \A y \in S : y <= x

SetMin(S) == CHOOSE x \in S : \A y \in S : x <= y

Range(s) == {s[i] : i \in DOMAIN s}

RemoveAt(s, i) == [k \in 1..(Len(s) - 1) |-> IF k < i THEN s[k] ELSE s[k + 1]]

Swap(s, i, j) == [s EXCEPT ![i] = s[j], ![j] = s[i]]

MapGet(f, k, dflt) == IF k \in DOMAIN f THEN f[k] ELSE dflt

MapPut(f, k, v) == [x \in (DOMAIN f) \cup {k} |-> IF x = k THEN v ELSE f[x]]

MapDel(f, k) == [x \in (DOMAIN f) \ {k} |-> f[x]]

MapRestrict(f, S) == [x \in (DOMAIN f) \cap S |-> f[x]]

EmptyMap == [x \in {} |-> 0]

\* ── Session and StateRecord ───────────────────────────────────────────────
StateUnknown == "Unknown"

\* session.ParseState / stateFromString: wire string -> State enum
ParseState(s) ==
    CASE s = "working" -> "Working"
      [] s = "waiting" -> "Waiting"
      [] s = "plan_ready" -> "PlanReady"
      [] s = "notifying" -> "Notifying"
      [] s = "idle" -> "Idle"
      [] OTHER -> StateUnknown

NoRec == [SessionID |-> "", TmuxPane |-> "", State |-> "", CurrentTool |-> "", UpdatedAt |-> 0]

\* a file of the directory that json.Unmarshal rejects
Malformed == [NoRec EXCEPT !.State = "{not valid json}"]

Session(id, pane, st, tool, at) ==
    [ID |-> id, TmuxPane |-> pane, State |-> st, CurrentTool |-> tool, UpdatedAt |-> at]

\* Session.Key
Key(s) == IF s.ID # "" THEN <<"session", s.ID>> ELSE <<"pane", s.TmuxPane>>

Keys(sessions) == {Key(sessions[i]) : i \in DOMAIN sessions}

\* first index (1-based) of the session on `pane`, 0 when there is none
IndexOfPane(sessions, pane) ==
    LET I == {i \in DOMAIN sessions : sessions[i].TmuxPane = pane}
    IN IF I = {} THEN 0 ELSE SetMin(I)

\* a variant that returns the records in the opposite order
ReadAllReversed(d) ==
    LET ids == SelectSeq(SessionIDs, LAMBDA id : d[id] # NoRec /\ d[id] # Malformed)
    IN [i \in DOMAIN ids |-> d[ids[Len(ids) + 1 - i]]]

\* Store.ReadAll: the records of the directory in file-name order
ReadAll(d) ==
    LET ids == SelectSeq(SessionIDs, LAMBDA id : d[id] # NoRec /\ d[id] # Malformed)
    IN [i \in DOMAIN ids |-> d[ids[i]]]

\* strings.Split(s, "."): the parts of the commands a pane runs in this model
SplitDots(cmd) ==
    CASE cmd = "2.1.3" -> <<"2", "1", "3">>
      [] cmd = "2.1" -> <<"2", "1">>
      [] OTHER -> <<cmd>>

\* strconv.Atoi(p) succeeds
IsNumber(p) == p \in {"1", "2", "3"}

\* tmux.isVersionString
isVersionString(cmd) ==
    Len(SplitDots(cmd)) = 3 /\ \A i \in DOMAIN SplitDots(cmd) : IsNumber(SplitDots(cmd)[i])

\* a variant of the classifier that goes by the name alone
IsClaudeByName(cmd) == cmd = "claude"

\* tmux.IsClaudePane on the pane's foreground command
IsClaudePane(cmd) == cmd = "claude" \/ isVersionString(cmd)

\* ListPanes: the live panes in inventory order
ListPanes(ps) == SelectSeq(PaneOrder, LAMBDA p : ps[p] # "none")

\* a variant that takes every pane for live
AliveAlways(ss, live) == TRUE

\* discover: pane, alive := liveByID[ss.TmuxPane]
Alive(ss, live) == ss.TmuxPane \in Range(live)

\* session.discover; now is what time.Now() returns during the call
discover(d, ps, now) ==
    LET stateEntries == ReadAll(d)
        live == ListPanes(ps)
        alive == SelectSeq(stateEntries, LAMBDA ss : Alive(ss, live))
        hooked == [i \in DOMAIN alive |->
                     Session(alive[i].SessionID, alive[i].TmuxPane, ParseState(alive[i].State),
                             alive[i].CurrentTool, alive[i].UpdatedAt)]
        coveredPanes == {alive[i].TmuxPane : i \in DOMAIN alive}
        rest == SelectSeq(live, LAMBDA p : p \notin coveredPanes /\ IsClaudePane(ps[p]))
        fallback == [i \in DOMAIN rest |-> Session("", rest[i], StateUnknown, "", now)]
    IN hooked \o fallback

\* the working directory of each pane: the first two panes share a project
CurrentPath == [p \in AllPanes |-> IF p \in {"%1", "%2"} THEN "/src/a" ELSE "/src/b"]

\* discover: the directories branchFn (gitBranch, which runs git) is called
\* with, one call for every session that is built, hooked or fallback
branchCalls(d, ps, now) ==
    [i \in DOMAIN discover(d, ps, now) |-> CurrentPath[discover(d, ps, now)[i].TmuxPane]]

\* the earlier Discover (internal/session/discovery.go), which builds sessions
\* from the panes alone: gitBranch runs only when branchCache has no entry
cachedBranchCalls(ps) ==
    LET dirs == [i \in DOMAIN SelectSeq(ListPanes(ps), LAMBDA p : IsClaudePane(ps[p])) |->
                   CurrentPath[SelectSeq(ListPanes(ps), LAMBDA p : IsClaudePane(ps[p]))[i]]]
    IN SelectSeq([i \in DOMAIN dirs |-> IF \E j \in 1..(i - 1) : dirs[j] = dirs[i]
                                        THEN "" ELSE dirs[i]],
                 LAMBDA x : x # "")

\* a variant of Discover that hands back what it has when the panes cannot be listed
DiscoverPartial(d, ps, now, readOk, panesOk) ==
    IF ~readOk THEN [sessions |-> <<>>, err |-> TRUE]
    ELSE IF ~panesOk
         THEN [sessions |-> [i \in DOMAIN ReadAll(d) |->
                               Session(ReadAll(d)[i].SessionID, ReadAll(d)[i].TmuxPane,
                                       ParseState(ReadAll(d)[i].State),
                                       ReadAll(d)[i].CurrentTool, ReadAll(d)[i].UpdatedAt)],
               err |-> TRUE]
         ELSE [sessions |-> discover(d, ps, now), err |-> FALSE]

\* Discover: discover on state.ReadAll and tmux.ListPanes, either of which may
\* fail (readOk, panesOk); the result is the pair (sessions, err)
Discover(d, ps, now, readOk, panesOk) ==
    IF ~readOk THEN [sessions |-> <<>>, err |-> TRUE]
    ELSE IF ~panesOk THEN [sessions |-> <<>>, err |-> TRUE]
    ELSE [sessions |-> discover(d, ps, now), err |-> FALSE]

\* the byID / byPane maps of applyStates: a later record overwrites an earlier
byID(states, id) ==
    LET I == {i \in DOMAIN states : states[i].SessionID # "" /\ states[i].SessionID = id}
    IN IF I = {} THEN NoRec ELSE states[SetMax(I)]

byPane(states, pane) ==
    LET I == {i \in DOMAIN states : states[i].TmuxPane # "" /\ states[i].TmuxPane = pane}
    IN IF I = {} THEN NoRec ELSE states[SetMax(I)]

\* Model.applyStates on the session list
applyStates(sessions, states) ==
    [i \in DOMAIN sessions |->
        LET sess == sessions[i]
            r1 == IF sess.ID # "" THEN byID(states, sess.ID) ELSE NoRec
            st == IF r1 # NoRec THEN r1 ELSE byPane(states, sess.TmuxPane)
        IN IF st = NoRec THEN sess
           ELSE [sess EXCEPT !.ID = st.SessionID, !.State = ParseState(st.State),
                             !.CurrentTool = st.CurrentTool, !.UpdatedAt = st.UpdatedAt]]

\* ── Model helpers (w is the Model together with the stores it uses) ────────
NoGroup == <<>>

\* Model.selectedSession # nil
HasSel(w) == Len(w.sessions) > 0 /\ w.selected < Len(w.sessions)

\* the pane of the selected session, "" when nothing is selected
SelPane(w) == IF HasSel(w) THEN w.sessions[w.selected + 1].TmuxPane ELSE ""

\* groups.Store.Get
groupsGet(w, key) == MapGet(w.groups, key, "")

\* Model.groupKeyAndName
groupKeyAndName(w, s) ==
    LET custom == groupsGet(w, Key(s))
    IN IF custom # "" THEN <<"custom", custom>> ELSE NoGroup

\* orderIndex of sortSessions: key -> last position in savedOrder, -1 if absent
orderIndex(order, key) ==
    LET I == {i \in DOMAIN order : order[i] = key}
    IN IF I = {} THEN -1 ELSE SetMax(I) - 1

\* a variant of the swap conditions: the pinned loop never exchanges
ShouldSwapUnpinnedOnly(kind, a, b, w) ==
    /\ kind # "pinned"
    /\ LET iOrder == orderIndex(w.savedOrder, Key(a))
           jOrder == orderIndex(w.savedOrder, Key(b))
       IN (iOrder >= 0 /\ jOrder >= 0 /\ iOrder > jOrder) \/ (iOrder < 0 /\ jOrder >= 0)

\* the swap conditions of the two exchange loops of sortSessions
ShouldSwap(kind, a, b, w) ==
    IF kind = "pinned"
    THEN w.pinned[Key(a)] > w.pinned[Key(b)]
    ELSE LET iOrder == orderIndex(w.savedOrder, Key(a))
             jOrder == orderIndex(w.savedOrder, Key(b))
             iOk == iOrder >= 0
             jOk == jOrder >= 0
         IN (iOk /\ jOk /\ iOrder > jOrder) \/ (~iOk /\ jOk)

RECURSIVE ExchangeInner(_, _, _, _, _)
ExchangeInner(s, i, j, kind, w) ==
    IF j > Len(s) THEN s
    ELSE ExchangeInner(IF ShouldSwap(kind, s[i], s[j], w) THEN Swap(s, i, j) ELSE s,
                       i, j + 1, kind, w)

RECURSIVE ExchangeSort(_, _, _, _)
ExchangeSort(s, i, kind, w) ==
    IF i >= Len(s) THEN s
    ELSE ExchangeSort(ExchangeInner(s, i, i + 1, kind, w), i + 1, kind, w)

\* Model.sortSessions
sortSessions(w) ==
    IF Len(w.sessions) <= 1 THEN w
    ELSE LET selectedPane == IF w.selected < Len(w.sessions)
                             THEN w.sessions[w.selected + 1].TmuxPane ELSE ""
             pinnedS == SelectSeq(w.sessions, LAMBDA s : Key(s) \in DOMAIN w.pinned)
             unpinnedS == SelectSeq(w.sessions, LAMBDA s : Key(s) \notin DOMAIN w.pinned)
             sorted == ExchangeSort(pinnedS, 1, "pinned", w)
                         \o ExchangeSort(unpinnedS, 1, "unpinned", w)
             at == IndexOfPane(sorted, selectedPane)
         IN [w EXCEPT !.sessions = sorted,
                      !.selected = IF selectedPane # "" /\ at > 0 THEN at - 1 ELSE @]

\* a variant of the lookup of MergeSessions: the pane is tried before the ID
mergeLookupPaneFirst(sess, updates) ==
    IF byPane(updates, sess.TmuxPane) # NoRec THEN byPane(updates, sess.TmuxPane)
    ELSE IF sess.ID # "" THEN byID(updates, sess.ID) ELSE NoRec

\* MergeSessions: st, found of the loop body (NoRec when nothing is found)
mergeLookup(sess, updates) ==
    IF sess.ID # "" /\ byID(updates, sess.ID) # NoRec THEN byID(updates, sess.ID)
    ELSE byPane(updates, sess.TmuxPane)

\* MergeSessions of the domain package
MergeSessions(sessions, updates) ==
    [i \in DOMAIN sessions |->
        IF mergeLookup(sessions[i], updates) = NoRec THEN sessions[i]
        ELSE [sessions[i] EXCEPT
                !.ID = mergeLookup(sessions[i], updates).SessionID,
                !.State = ParseState(mergeLookup(sessions[i], updates).State),
                !.CurrentTool = mergeLookup(sessions[i], updates).CurrentTool,
                !.UpdatedAt = mergeLookup(sessions[i], updates).UpdatedAt]]

\* the less functions SortSessions hands to sort.SliceStable and sort.Slice
sortLess(kind, a, b, pinned, savedOrder) ==
    IF kind = "pinned"
    THEN pinned[Key(a)] < pinned[Key(b)]
    ELSE LET iOrder == orderIndex(savedOrder, Key(a))
             jOrder == orderIndex(savedOrder, Key(b))
             iOk == iOrder >= 0
             jOk == jOrder >= 0
         IN IF iOk /\ jOk THEN iOrder < jOrder ELSE jOk /\ ~iOk

\* the insertion sort the sort package runs on a slice this short: element j sinks
\* while it is less than the one before it
RECURSIVE insertionSink(_, _, _, _, _)
insertionSink(s, j, kind, pinned, savedOrder) ==
    IF j > 1 /\ sortLess(kind, s[j], s[j - 1], pinned, savedOrder)
    THEN insertionSink(Swap(s, j, j - 1), j - 1, kind, pinned, savedOrder)
    ELSE s

RECURSIVE insertionSort(_, _, _, _, _)
insertionSort(s, i, kind, pinned, savedOrder) ==
    IF i > Len(s) THEN s
    ELSE insertionSort(insertionSink(s, i, kind, pinned, savedOrder), i + 1,
                       kind, pinned, savedOrder)

\* SortSessions, the sort of the domain package
SortSessions(sessions, pinned, savedOrder) ==
    IF Len(sessions) <= 1 THEN sessions
    ELSE insertionSort(SelectSeq(sessions, LAMBDA x : Key(x) \in DOMAIN pinned),
                       2, "pinned", pinned, savedOrder)
           \o insertionSort(SelectSeq(sessions, LAMBDA x : Key(x) \notin DOMAIN pinned),
                            2, "unpinned", pinned, savedOrder)

\* a variant of saveSidebarState that writes the file only when the state is marked dirty
saveSidebarStateIfDirty(w) ==
    LET order == [i \in DOMAIN w.sessions |-> Key(w.sessions[i])]
    IN [w EXCEPT !.savedOrder = order,
                 !.sidebarFile = IF w.sidebarDirty THEN [Pinned |-> w.pinned, Order |-> order]
                                 ELSE @,
                 !.sidebarDirty = FALSE]

\* Model.saveSidebarState
saveSidebarState(w) ==
    LET order == [i \in DOMAIN w.sessions |-> Key(w.sessions[i])]
    IN [w EXCEPT !.savedOrder = order,
                 !.sidebarFile = [Pinned |-> w.pinned, Order |-> order],
                 !.sidebarDirty = FALSE]

\* Model.cleanupSidebarState
cleanupSidebarState(w) ==
    LET activeKeys == Keys(w.sessions)
        newPinned == MapRestrict(w.pinned, activeKeys)
        newOrder == SelectSeq(w.savedOrder, LAMBDA k : k \in activeKeys)
        changed == newPinned # w.pinned \/ newOrder # w.savedOrder
    IN [w EXCEPT !.pinned = newPinned,
                 !.savedOrder = newOrder,
                 !.sidebarDirty = @ \/ changed]

\* worstState: Working > Waiting > PlanReady > Notifying > Idle > Unknown
priority(st) ==
    CASE st = "Working" -> 5
      [] st = "Waiting" -> 4
      [] st = "PlanReady" -> 3
      [] st = "Notifying" -> 2
      [] st = "Idle" -> 1
      [] OTHER -> 0

worstState(states) ==
    IF states = {} THEN StateUnknown
    ELSE CHOOSE st \in states : \A o \in states : priority(o) <= priority(st)

\* a variant of the rows of a session: the collapsed set is not consulted
RowsOfExpanded(w, i) ==
    LET gKey == groupKeyAndName(w, w.sessions[i])
        members == {j \in DOMAIN w.sessions : groupKeyAndName(w, w.sessions[j]) = gKey}
        header == [isHeader |-> TRUE, groupKey |-> gKey, sessionIdx |-> 0,
                   count |-> Cardinality(members),
                   aggState |-> worstState({w.sessions[j].State : j \in members})]
        row == [isHeader |-> FALSE, groupKey |-> gKey, sessionIdx |-> i - 1,
                count |-> 0, aggState |-> StateUnknown]
    IN IF gKey = NoGroup THEN <<row>>
       ELSE (IF i = SetMin(members) THEN <<header>> ELSE <<>>) \o <<row>>

\* the rows buildViewItems emits for the session at index i (1-based)
RowsOf(w, i) ==
    LET gKey == groupKeyAndName(w, w.sessions[i])
        members == {j \in DOMAIN w.sessions : groupKeyAndName(w, w.sessions[j]) = gKey}
        header == [isHeader |-> TRUE, groupKey |-> gKey, sessionIdx |-> 0,
                   count |-> Cardinality(members),
                   aggState |-> worstState({w.sessions[j].State : j \in members})]
        row == [isHeader |-> FALSE, groupKey |-> gKey, sessionIdx |-> i - 1,
                count |-> 0, aggState |-> StateUnknown]
    IN IF gKey = NoGroup THEN <<row>>
       ELSE (IF i = SetMin(members) THEN <<header>> ELSE <<>>)
              \o (IF gKey \in w.collapsedGroups THEN <<>> ELSE <<row>>)

RECURSIVE RowsFrom(_, _)
RowsFrom(w, i) == IF i > Len(w.sessions) THEN <<>> ELSE RowsOf(w, i) \o RowsFrom(w, i + 1)

\* Model.buildViewItems
buildViewItems(w) == RowsFrom(w, 1)

\* domain.PreGroupedSession for every session of the list, as the caller computes it
PreGrouped(w) ==
    [i \in DOMAIN w.sessions |->
       [Session |-> w.sessions[i], GroupKey |-> groupKeyAndName(w, w.sessions[i])]]

\* groupMap[key].sessions of BuildViewItems: the indices of the group, ascending
GroupIdx(sessions, key) ==
    SelectSeq([j \in DOMAIN sessions |-> j], LAMBDA j : sessions[j].GroupKey = key)

\* the rows BuildViewItems emits when its loop is at index i (1-based)
ItemsOf(sessions, collapsed, i) ==
    LET gKey == sessions[i].GroupKey
        g == GroupIdx(sessions, gKey)
        header == [isHeader |-> TRUE, groupKey |-> gKey, sessionIdx |-> -1,
                   count |-> Len(g),
                   aggState |-> worstState({sessions[g[k]].Session.State : k \in DOMAIN g})]
    IN IF gKey = NoGroup
       THEN <<[isHeader |-> FALSE, groupKey |-> NoGroup, sessionIdx |-> i - 1,
               count |-> 0, aggState |-> StateUnknown]>>
       ELSE IF i # g[1] THEN <<>>
       ELSE <<header>>
              \o (IF gKey \in collapsed THEN <<>>
                  ELSE [k \in DOMAIN g |->
                          [isHeader |-> FALSE, groupKey |-> gKey, sessionIdx |-> g[k] - 1,
                           count |-> 0, aggState |-> StateUnknown]])

RECURSIVE ItemsFrom(_, _, _)
ItemsFrom(sessions, collapsed, i) ==
    IF i > Len(sessions) THEN <<>>
    ELSE ItemsOf(sessions, collapsed, i) \o ItemsFrom(sessions, collapsed, i + 1)

\* BuildViewItems of the domain package
BuildViewItems(sessions, collapsed) == ItemsFrom(sessions, collapsed, 1)

\* Model.findCursorPos, 1-based, 0 when the cursor is on no row
findCursorPos(w, items) ==
    LET I == IF w.cursorOnGroup # NoGroup
             THEN {i \in DOMAIN items : items[i].isHeader /\ items[i].groupKey = w.cursorOnGroup}
             ELSE {i \in DOMAIN items : ~items[i].isHeader /\ items[i].sessionIdx = w.selected}
    IN IF I = {} THEN 0 ELSE SetMin(I)

\* the row a cursor move stops on: a session row or a collapsed header
Stops(w, items, i) ==
    ~items[i].isHeader \/ items[i].groupKey \in w.collapsedGroups

\* the effect of moveDown / moveUp once the row to stop on is known
MoveTo(w, items, I, i) ==
    IF I = {} THEN [w |-> w, changed |-> FALSE]
    ELSE IF items[i].isHeader
         THEN [w |-> [w EXCEPT !.cursorOnGroup = items[i].groupKey], changed |-> FALSE]
         ELSE [w |-> [w EXCEPT !.cursorOnGroup = NoGroup, !.selected = items[i].sessionIdx],
               changed |-> items[i].sessionIdx # w.selected]

\* Model.moveDown
moveDown(w) ==
    LET items == buildViewItems(w)
        curPos == findCursorPos(w, items)
        I == {i \in DOMAIN items : i > curPos /\ Stops(w, items, i)}
    IN MoveTo(w, items, I, IF I = {} THEN 0 ELSE SetMin(I))

\* Model.moveUp
moveUp(w) ==
    LET items == buildViewItems(w)
        found == findCursorPos(w, items)
        curPos == IF found = 0 THEN Len(items) + 1 ELSE found
        I == {i \in DOMAIN items : i < curPos /\ Stops(w, items, i)}
    IN MoveTo(w, items, I, IF I = {} THEN 0 ELSE SetMax(I))

\* Model.toggleGroupAtCursor
toggleGroupAtCursor(w) ==
    IF w.cursorOnGroup # NoGroup
    THEN LET gKey == w.cursorOnGroup
             members == {i \in DOMAIN w.sessions : groupKeyAndName(w, w.sessions[i]) = gKey}
             w1 == [w EXCEPT !.collapsedGroups = @ \ {gKey}, !.cursorOnGroup = NoGroup]
         IN IF members = {} THEN w1
            ELSE [w1 EXCEPT !.selected =
                    IndexOfPane(w.sessions, w.sessions[SetMin(members)].TmuxPane) - 1]
    ELSE IF w.selected < Len(w.sessions)
         THEN LET gKey == groupKeyAndName(w, w.sessions[w.selected + 1])
              IN IF gKey = NoGroup THEN w
                 ELSE [w EXCEPT !.collapsedGroups =
                         IF gKey \in @ THEN @ \ {gKey} ELSE @ \cup {gKey}]
         ELSE w

\* strings.Contains(searchable, query) for the one-word queries of the model
Matches(query, s) ==
    \/ query = s.ID
    \/ (query = "1" /\ s.TmuxPane = "%1")
    \/ (query = "2" /\ s.TmuxPane = "%2")

\* Model.updateFilter
updateFilter(w) ==
    IF w.filterQuery = "" THEN [w EXCEPT !.filtered = <<>>]
    ELSE LET idx == SelectSeq([i \in DOMAIN w.sessions |-> i - 1],
                              LAMBDA i : Matches(w.filterQuery, w.sessions[i + 1]))
         IN [w EXCEPT !.filtered = idx,
                      !.selected = IF Len(idx) > 0 /\ @ \notin Range(idx) THEN idx[1] ELSE @]

\* Model.isFiltered
isFiltered(w) == w.filterQuery # ""

\* ── Commands ──────────────────────────────────────────────────────────────
Cmd(kind, pane, size) == [kind |-> kind, pane |-> pane, size |-> size]

Nil == Cmd("nil", "", 0)

tickCapture == Cmd("tick", "", 0)

tickSessionRefresh == Cmd("refresh", "", 0)

discoverSessions == Cmd("discover", "", 0)

pendingDiscoveryTick == Cmd("quick", "", 0)

waitForStateEvent == Cmd("wait", "", 0)

fetchCapture(paneID) == Cmd("fetch", paneID, 0)

\* Model.resizePaneToViewport; the viewport has no size before the first resize
resizePaneToViewport(paneID, size) ==
    IF paneID = "" \/ size <= 0 THEN Nil ELSE Cmd("resize", paneID, size)

launchWorktree == Cmd("launch", "", 0)

removeWorktree(sessionPane) == Cmd("remove", sessionPane, 0)

\* tea.Batch drops the nil commands
Batch(cmds) == SelectSeq(cmds, LAMBDA c : c # Nil)

Res(w, cmds) == [w |-> w, cmds |-> Batch(cmds)]

\* ── Messages ──────────────────────────────────────────────────────────────
Msg(type) == [type |-> type]

KeyMsg(key, arg) == [type |-> "key", key |-> key, arg |-> arg]

NoKey == <<>>

\* Model.selectSession
selectSession(w) ==
    Res([w EXCEPT !.lastCapture = "", !.pendingGotoBottom = TRUE],
        IF HasSel(w)
        THEN <<resizePaneToViewport(SelPane(w), w.vp), fetchCapture(SelPane(w))>>
        ELSE <<>>)

\* moveSessionUp / moveSessionDown: swap the selected session with its
\* neighbour in direction d when both are pinned or both are unpinned
moveSession(w, d) ==
    LET i == w.selected + 1
        j == i + d
        can == HasSel(w) /\ j \in DOMAIN w.sessions
                 /\ ((Key(w.sessions[i]) \in DOMAIN w.pinned)
                       <=> (Key(w.sessions[j]) \in DOMAIN w.pinned))
        ki == Key(w.sessions[i])
        kj == Key(w.sessions[j])
    IN IF ~can THEN [moved |-> FALSE, w |-> w, newSel |-> w.selected]
       ELSE [moved |-> TRUE,
             newSel |-> j - 1,
             w |-> [w EXCEPT !.sessions = Swap(@, i, j),
                             !.pinned = IF ki \in DOMAIN @
                                        THEN [@ EXCEPT ![ki] = w.pinned[kj], ![kj] = w.pinned[ki]]
                                        ELSE @]]

\* Model.sessionIndexAtY: [idx, groupKey] for the row at screen line y
sessionIndexAtY(w, y) ==
    LET contentY == y - 1
        none == [idx |-> -1, groupKey |-> NoGroup]
    IN IF contentY < 0 THEN none
       ELSE IF w.mode = "Filter" \/ isFiltered(w)
       THEN LET cy == contentY - 1
                n == IF Len(w.filtered) = 0
                     THEN (IF w.filterQuery = "" THEN Len(w.sessions) ELSE 0)
                     ELSE Len(w.filtered)
                idx == cy \div 2
            IN IF cy < 0 \/ idx >= n THEN none
               ELSE IF idx < Len(w.filtered)
                    THEN [idx |-> w.filtered[idx + 1], groupKey |-> NoGroup]
                    ELSE [idx |-> idx, groupKey |-> NoGroup]
       ELSE LET items == buildViewItems(w)
                rowOf(k) == LET before == {i \in 1..(k - 1) : TRUE}
                            IN Cardinality({i \in before : items[i].isHeader})
                                 + 2 * Cardinality({i \in before : ~items[i].isHeader})
                hit == {k \in DOMAIN items :
                          IF items[k].isHeader THEN contentY = rowOf(k)
                          ELSE contentY >= rowOf(k) /\ contentY < rowOf(k) + 2}
            IN IF hit = {} THEN none
               ELSE LET k == SetMin(hit)
                    IN IF items[k].isHeader
                       THEN [idx |-> -1, groupKey |-> items[k].groupKey]
                       ELSE [idx |-> items[k].sessionIdx, groupKey |-> NoGroup]

\* ── Normal mode ───────────────────────────────────────────────────────────
\* updateNormal, case sessionsDiscoveredMsg: a session found again on its pane
\* keeps the ID, State and CurrentTool it had
mergeDiscovered(w, found) ==
    [i \in DOMAIN found |->
        LET I == {k \in DOMAIN w.sessions : w.sessions[k].TmuxPane = found[i].TmuxPane}
        IN IF I = {} THEN found[i]
           ELSE [found[i] EXCEPT !.ID = w.sessions[SetMax(I)].ID,
                                 !.State = w.sessions[SetMax(I)].State,
                                 !.CurrentTool = w.sessions[SetMax(I)].CurrentTool]]

\* ... if m.sidebarDirty { m.saveSidebarState() }
saveIfDirty(w) == IF w.sidebarDirty THEN saveSidebarState(w) ELSE w

\* ... the selection goes back to the pane that was selected, then is clamped
restoreSelection(w, selectedPane) ==
    LET at == IndexOfPane(w.sessions, selectedPane)
        sel == IF selectedPane # "" /\ at > 0 THEN at - 1 ELSE w.selected
    IN [w EXCEPT !.selected = IF sel >= Len(w.sessions)
                              THEN maxInt(0, Len(w.sessions) - 1) ELSE sel]

\* ... the pending pane is in the result
pendingFound(w) == w.pendingSelectPane # "" /\ IndexOfPane(w.sessions, w.pendingSelectPane) > 0

\* ... the pending pane is not in the result and no quick retry was scheduled
pendingRetry(w) ==
    w.pendingSelectPane # "" /\ IndexOfPane(w.sessions, w.pendingSelectPane) = 0
      /\ ~w.pendingQuickRetried

\* ... if m.pendingSelectPane != "" { ... }
resolvePending(w) ==
    IF pendingFound(w)
    THEN [w EXCEPT !.selected = IndexOfPane(w.sessions, w.pendingSelectPane) - 1,
                   !.lastCapture = "",
                   !.forceViewportRefresh = TRUE,
                   !.pendingGotoBottom = TRUE,
                   !.pendingSelectPane = "",
                   !.pendingQuickRetried = FALSE]
    ELSE IF pendingRetry(w) THEN [w EXCEPT !.pendingQuickRetried = TRUE] ELSE w

\* ... if m.ready { resize the selected pane }
resizeIfReady(w) ==
    IF w.ready /\ HasSel(w) THEN <<resizePaneToViewport(SelPane(w), w.vp)>> ELSE <<>>

\* ... the model and the commands once the list is merged, sorted and reselected
discoveredResult(w) ==
    Res(resolvePending(w),
        (IF pendingRetry(w) THEN <<pendingDiscoveryTick>> ELSE <<>>)
          \o resizeIfReady(resolvePending(w)))

\* ... the model handed to m.sortSessions(): merged, states applied, sidebar cleaned
discoveredUnsorted(w, msg) ==
    saveIfDirty(cleanupSidebarState(
      [w EXCEPT !.sessions = applyStates(mergeDiscovered(w, msg.sessions),
                                         ReadAll(w.disk))]))

onDiscovered(w, msg) ==
    discoveredResult(
      restoreSelection(sortSessions(discoveredUnsorted(w, msg)), SelPane(w)))

\* updateNormal, case captureMsg
onCapture(w, msg) ==
    IF HasSel(w) /\ SelPane(w) = msg.pane
         /\ (msg.content # w.lastCapture \/ w.forceViewportRefresh)
    THEN Res([w EXCEPT !.lastCapture = msg.content,
                       !.forceViewportRefresh = FALSE,
                       !.pendingGotoBottom = FALSE,
                       !.vpContent = msg.content], <<>>)
    ELSE Res(w, <<>>)

\* if m.selected >= len(m.sessions) { m.selected = maxInt(0, len(m.sessions)-1) }
clampSelected(w) ==
    [w EXCEPT !.selected = IF @ >= Len(w.sessions) THEN maxInt(0, Len(w.sessions) - 1) ELSE @]

\* m.forceViewportRefresh = true after m.selectSession()
withForce(r) == [w |-> [r.w EXCEPT !.forceViewportRefresh = TRUE], cmds |-> r.cmds]

\* ... the sidebar state is cleaned and saved after the list changed
withSaved(r) == [w |-> saveSidebarState(cleanupSidebarState(r.w)), cmds |-> r.cmds]

\* updateNormal, case worktreeRemovedMsg
removedAt(w, i) ==
    IF i = 0 THEN Res(w, <<discoverSessions>>)
    ELSE Res(saveSidebarState(cleanupSidebarState(
               [clampSelected([w EXCEPT !.pinned = MapDel(@, Key(w.sessions[i])),
                                        !.sessions = RemoveAt(@, i)])
                  EXCEPT !.lastCapture = "", !.pendingGotoBottom = TRUE])),
             <<discoverSessions>>)

onRemoved(w, msg) ==
    removedAt(w, IF msg.pane = "" THEN 0 ELSE IndexOfPane(w.sessions, msg.pane))

\* updateNormal, case keys.Up / keys.Down
onNavigate(w, mv) ==
    LET w1 == mv.w
    IN IF ~HasSel(w1) THEN Res(w1, <<>>)
       ELSE IF mv.changed
            THEN Res([w1 EXCEPT !.lastCapture = "",
                                !.forceViewportRefresh = TRUE,
                                !.pendingGotoBottom = TRUE],
                     <<resizePaneToViewport(SelPane(w1), w1.vp), fetchCapture(SelPane(w1))>>)
            ELSE Res(w1, <<fetchCapture(SelPane(w1))>>)

\* updateNormal, case keys.Kill
onKill(w, ok) ==
    IF ~HasSel(w) THEN Res(w, <<>>)
    ELSE IF ~ok THEN Res([w EXCEPT !.err = TRUE], <<>>)
    ELSE withSaved(withForce(selectSession(clampSelected(
           [w EXCEPT !.panes[SelPane(w)] = "none",
                     !.pinned = MapDel(@, Key(w.sessions[w.selected + 1])),
                     !.sessions = RemoveAt(@, w.selected + 1)]))))

\* a variant of the pin toggle: the counter is used without being advanced
togglePinStale(w) ==
    IF ~HasSel(w) THEN w
    ELSE IF Key(w.sessions[w.selected + 1]) \in DOMAIN w.pinned
         THEN [w EXCEPT !.pinned = MapDel(@, Key(w.sessions[w.selected + 1]))]
         ELSE [w EXCEPT !.pinned = MapPut(@, Key(w.sessions[w.selected + 1]), w.pinCounter)]

\* updateNormal, case keys.Pin: the pin map and the counter before m.sortSessions()
togglePin(w) ==
    IF ~HasSel(w) THEN w
    ELSE LET sel == w.sessions[w.selected + 1]
             gKey == groupKeyAndName(w, sel)
             members == SelectSeq(w.sessions, LAMBDA s : groupKeyAndName(w, s) = gKey)
             memberKeys == Keys(members)
             lastAt(k) == SetMax({i \in DOMAIN members : Key(members[i]) = k})
             w1 == IF gKey # NoGroup
                   THEN IF Key(sel) \in DOMAIN w.pinned
                        THEN [w EXCEPT !.pinned = MapRestrict(@, (DOMAIN @) \ memberKeys)]
                        ELSE [w EXCEPT !.pinned = [k \in (DOMAIN @) \cup memberKeys |->
                                                     IF k \in memberKeys
                                                     THEN w.pinCounter + lastAt(k) ELSE @[k]],
                                       !.pinCounter = @ + Len(members)]
                   ELSE IF Key(sel) \in DOMAIN w.pinned
                        THEN [w EXCEPT !.pinned = MapDel(@, Key(sel))]
                        ELSE [w EXCEPT !.pinned = MapPut(@, Key(sel), w.pinCounter + 1),
                                       !.pinCounter = @ + 1]
         IN w1

\* updateNormal, case keys.Pin
onPin(w) == IF ~HasSel(w) THEN w ELSE saveSidebarState(sortSessions(togglePin(w)))

\* m.saveSidebarState() after a move
withSavedOrder(r) == [w |-> saveSidebarState(r.w), cmds |-> r.cmds]

\* updateNormal, case keys.MoveUp / keys.MoveDown
moved(mv) ==
    IF ~mv.moved THEN Res(mv.w, <<>>)
    ELSE withSavedOrder(withForce(selectSession([mv.w EXCEPT !.selected = mv.newSel])))

onMove(w, d) == moved(moveSession(w, d))

\* updateNormal, case tea.KeyMsg
onKey(w, msg, ok) ==
    LET k == msg.key
    IN IF w.insertMode
       THEN IF k = "ctrl+h" THEN Res([w EXCEPT !.insertMode = FALSE], <<>>)
            ELSE IF ~HasSel(w) THEN Res(w, <<>>)
            ELSE IF ~ok THEN Res([w EXCEPT !.err = TRUE, !.insertMode = FALSE], <<>>)
            ELSE Res(w, <<fetchCapture(SelPane(w))>>)
       ELSE CASE k = "up" -> onNavigate(w, moveUp(w))
              [] k = "down" -> onNavigate(w, moveDown(w))
              [] k = "insert" -> Res([w EXCEPT !.insertMode = TRUE], <<>>)
              [] k = "refresh" -> Res(w, <<discoverSessions>>)
              [] k = "kill" -> onKill(w, ok)
              [] k = "new" -> Res([w EXCEPT !.pickerModel = TRUE, !.mode = "Picker"], <<>>)
              [] k = "worktree" ->
                   IF HasSel(w) /\ ok
                   THEN Res([w EXCEPT !.worktreeModel = TRUE, !.mode = "Worktree"], <<>>)
                   ELSE Res(w, <<>>)
              [] k = "review" ->
                   IF HasSel(w) /\ ok
                   THEN Res([w EXCEPT !.reviewModel = TRUE, !.mode = "Review"], <<>>)
                   ELSE Res(w, <<>>)
              [] k = "filter" -> Res([w EXCEPT !.mode = "Filter"], <<>>)
              [] k = "rename" ->
                   IF HasSel(w)
                   THEN Res([w EXCEPT !.renameKey = Key(w.sessions[w.selected + 1]),
                                      !.mode = "Rename"], <<>>)
                   ELSE Res(w, <<>>)
              [] k = "togglegroup" -> Res(toggleGroupAtCursor(w), <<>>)
              [] k = "setgroup" ->
                   IF w.cursorOnGroup = NoGroup /\ HasSel(w)
                   THEN Res([w EXCEPT !.groupSetKey = Key(w.sessions[w.selected + 1]),
                                      !.mode = "GroupSet"], <<>>)
                   ELSE Res(w, <<>>)
              [] k = "pin" -> Res(onPin(w), <<>>)
              [] k = "moveup" -> onMove(w, -1)
              [] k = "movedown" -> onMove(w, 1)
              [] OTHER -> Res(w, <<>>)

\* updateNormal, case tea.MouseMsg, with `at` the row under the pointer
clickAt(w, at) ==
    IF at.groupKey # NoGroup
    THEN Res([w EXCEPT !.collapsedGroups =
                IF at.groupKey \in @ THEN @ \ {at.groupKey} ELSE @ \cup {at.groupKey}], <<>>)
    ELSE IF at.idx >= 0 /\ at.idx < Len(w.sessions) /\ w.selected # at.idx
         THEN withForce(selectSession([w EXCEPT !.selected = at.idx,
                                                !.cursorOnGroup = NoGroup]))
         ELSE Res(w, <<>>)

\* updateNormal, case tea.MouseMsg (left button inside the session pane)
onMouse(w, msg) == clickAt(w, sessionIndexAtY(w, msg.y))

\* Model.updateNormal
updateNormal(w, msg, ok) ==
    CASE msg.type = "windowSize" ->
           LET w1 == [w EXCEPT !.vp = msg.size, !.ready = TRUE]
           IN Res(w1, IF HasSel(w1)
                      THEN <<resizePaneToViewport(SelPane(w1), w1.vp)>> ELSE <<>>)
      [] msg.type = "discovered" -> onDiscovered(w, msg)
      [] msg.type = "refresh" -> Res(w, <<discoverSessions, tickSessionRefresh>>)
      [] msg.type = "tick" ->
           Res(w, <<tickCapture>> \o (IF HasSel(w) THEN <<fetchCapture(SelPane(w))>> ELSE <<>>))
      [] msg.type = "capture" -> onCapture(w, msg)
      [] msg.type = "stateUpdate" ->
           Res([w EXCEPT !.sessions = applyStates(@, <<msg.rec>>)], <<waitForStateEvent>>)
      [] msg.type = "launched" ->
           Res([w EXCEPT !.pendingSelectPane = msg.pane],
               <<discoverSessions, tickCapture, tickSessionRefresh>>)
      [] msg.type = "removed" -> onRemoved(w, msg)
      [] msg.type = "err" -> Res([w EXCEPT !.err = TRUE], <<>>)
      [] msg.type = "key" -> onKey(w, msg, ok)
      [] msg.type = "mouse" -> onMouse(w, msg)
      [] OTHER -> Res(w, <<>>)

\* ── Per-mode handlers ─────────────────────────────────────────────────────
\* the pane NewWindow creates next
NewPane(w) == LaunchPanes[w.launched + 1]

\* LaunchSession, successful: the window exists, claude has not started yet
LaunchSession(w) ==
    [w EXCEPT !.panes[NewPane(w)] = "zsh", !.launched = @ + 1]

\* the tail shared by the submit / cancel exits of Review, Picker and Worktree
leaveToNormal(w) ==
    Res([w EXCEPT !.mode = "Normal",
                  !.reviewModel = FALSE,
                  !.pickerModel = FALSE,
                  !.worktreeModel = FALSE,
                  !.lastCapture = "",
                  !.forceViewportRefresh = TRUE],
        <<tickCapture, tickSessionRefresh>>
          \o (IF HasSel(w) THEN <<fetchCapture(SelPane(w))>> ELSE <<>>))

\* Model.updateReviewMode, m.reviewModel # nil
updateReviewMode(w, msg, ok) ==
    IF msg.type = "key" /\ msg.key \in {"submit", "esc"} THEN leaveToNormal(w)
    ELSE Res(w, <<>>)

\* Model.updatePickerMode, m.pickerModel # nil
updatePickerMode(w, msg, ok) ==
    IF msg.type = "key" /\ msg.key = "enter"
    THEN LET w1 == IF ok
                   THEN [LaunchSession(w) EXCEPT !.pendingSelectPane = NewPane(w),
                                                 !.pendingQuickRetried = FALSE]
                   ELSE [w EXCEPT !.err = TRUE]
         IN Res([w1 EXCEPT !.mode = "Normal",
                           !.pickerModel = FALSE,
                           !.lastCapture = "",
                           !.forceViewportRefresh = TRUE],
                <<discoverSessions, tickCapture, tickSessionRefresh>>)
    ELSE IF msg.type = "key" /\ msg.key = "esc" THEN leaveToNormal(w)
    ELSE Res(w, <<>>)

\* Model.openOrSwitchWorktree; msg.arg is the pane of the session at the path
openOrSwitchWorktree(w, arg) ==
    LET i == IndexOfPane(w.sessions, arg)
    IN IF arg # "" /\ i > 0
       THEN Res([w EXCEPT !.selected = i - 1,
                          !.lastCapture = "",
                          !.pendingGotoBottom = TRUE], <<fetchCapture(arg)>>)
       ELSE Res(w, <<launchWorktree>>)

\* Model.updateWorktreeMode, m.worktreeModel # nil
updateWorktreeMode(w, msg, ok) ==
         LET left == [w EXCEPT !.mode = "Normal", !.worktreeModel = FALSE]
         IN IF msg.type # "key" THEN Res(w, <<>>)
            ELSE CASE msg.key = "open" -> openOrSwitchWorktree(left, msg.arg)
                   [] msg.key = "create" -> Res(left, <<launchWorktree>>)
                   [] msg.key = "remove" -> Res(left, <<removeWorktree(msg.arg)>>)
                   [] msg.key = "esc" -> leaveToNormal(w)
                   [] OTHER -> Res(w, <<>>)

\* Model.updateFilterMode
updateFilterMode(w, msg) ==
    LET isKey == msg.type = "key"
        cleared == [w EXCEPT !.mode = "Normal", !.filterQuery = "", !.filtered = <<>>]
    IN IF isKey /\ msg.key = "esc" THEN Res(cleared, <<>>)
       ELSE IF isKey /\ msg.key = "enter" THEN Res([w EXCEPT !.mode = "Normal"], <<>>)
       ELSE IF isKey /\ msg.key = "backspace" /\ w.filterQuery = "" THEN Res(cleared, <<>>)
       ELSE LET value == IF isKey /\ msg.key = "backspace" THEN ""
                         ELSE IF isKey /\ msg.key = "type" THEN msg.arg
                         ELSE w.filterQuery
            IN Res(updateFilter([w EXCEPT !.filterQuery = value]), <<>>)

\* a JSON file of the home directory: there is none, it does not decode
\* (data: what json.Unmarshal had filled in when it met the error), or it
\* holds data
FileMissing == [kind |-> "missing", data |-> EmptyMap]

FileCorrupt(partial) == [kind |-> "corrupt", data |-> partial]

JsonFile(data) == [kind |-> "json", data |-> data]

\* Model.updateRenameMode
updateRenameMode(w, msg) ==
    IF msg.type = "key" /\ msg.key = "esc"
    THEN Res([w EXCEPT !.mode = "Normal", !.renameKey = NoKey], <<>>)
    ELSE IF msg.type = "key" /\ msg.key = "enter"
    THEN Res([w EXCEPT !.names = IF msg.arg = "" THEN MapDel(@, w.renameKey)
                                 ELSE MapPut(@, w.renameKey, msg.arg),
                       !.home.names = JsonFile(IF msg.arg = "" THEN MapDel(w.names, w.renameKey)
                                               ELSE MapPut(w.names, w.renameKey, msg.arg)),
                       !.mode = "Normal",
                       !.renameKey = NoKey], <<>>)
    ELSE Res(w, <<>>)

\* Model.updateGroupSetMode
updateGroupSetMode(w, msg) ==
    IF msg.type = "key" /\ msg.key = "esc"
    THEN Res([w EXCEPT !.mode = "Normal", !.groupSetKey = NoKey], <<>>)
    ELSE IF msg.type = "key" /\ msg.key = "enter"
    THEN Res([w EXCEPT !.groups = IF msg.arg = "" THEN MapDel(@, w.groupSetKey)
                                  ELSE MapPut(@, w.groupSetKey, msg.arg),
                       !.home.groups = JsonFile(IF msg.arg = "" THEN MapDel(w.groups, w.groupSetKey)
                                                ELSE MapPut(w.groups, w.groupSetKey, msg.arg)),
                       !.mode = "Normal",
                       !.groupSetKey = NoKey], <<>>)
    ELSE Res(w, <<>>)

\* the messages the handler of the current mode keeps for itself: the switch
\* of Model.Update, and the nil guards that open the Review, Picker and
\* Worktree handlers (with a nil sub-model they hand over to updateNormal)
Intercepts(w, msg) ==
    CASE w.mode = "Review" -> msg.type \in {"key", "windowSize", "mouse"} /\ w.reviewModel
      [] w.mode = "Picker" -> msg.type \in {"key", "windowSize"} /\ w.pickerModel
      [] w.mode = "Worktree" -> msg.type \in {"key", "windowSize"} /\ w.worktreeModel
      [] w.mode \in {"Filter", "Rename", "GroupSet"} -> TRUE
      [] OTHER -> FALSE

\* the handler of the current mode
updateMode(w, msg, ok) ==
    CASE w.mode = "Review" -> updateReviewMode(w, msg, ok)
      [] w.mode = "Picker" -> updatePickerMode(w, msg, ok)
      [] w.mode = "Worktree" -> updateWorktreeMode(w, msg, ok)
      [] w.mode = "Filter" -> updateFilterMode(w, msg)
      [] w.mode = "Rename" -> updateRenameMode(w, msg)
      [] OTHER -> updateGroupSetMode(w, msg)

\* Model.Update
Update(w, msg, ok) ==
    IF Intercepts(w, msg) THEN updateMode(w, msg, ok) ELSE updateNormal(w, msg, ok)

\* ── State ─────────────────────────────────────────────────────────────────
VARIABLES
    m,            \* the tui.Model
    names,        \* names store: session key -> custom label
    groups,       \* groups store: session key -> group name
    home,         \* names.json and groups.json as they are on disk
    sidebarFile,  \* sidebar.json as last saved
    panes,        \* tmux: pane id -> foreground command, "none" when not live
    launched,     \* number of panes NewWindow has created
    disk,         \* the state directory: session id -> StateRecord
    pending,      \* bag of commands returned by Update that have not run
    inbox,        \* bag of messages produced by commands, not yet processed
    last,         \* the latest Update step: its message and the commands it returned
    ctl,          \* control-plane calls made so far by the commands of `last`
    quickRetries, \* launched pane -> quick-retry discoveries scheduled for it
    inputs,       \* user inputs processed
    hooks,        \* hook writes done
    fsQueue,      \* fsnotify events not yet received by the watcher loop
    fsErrors,     \* fsnotify errors not yet received by the watcher loop
    Events,       \* Watcher.Events (buffered channel)
    Errors,       \* Watcher.Errors (buffered channel)
    watcher,      \* Watcher: done closed, fw closed, loop returned, Events closed
    files,        \* the state directory byte by byte: file name -> content
    wr,           \* the Store.Write in progress, if any
    rd,           \* the Store.ReadAll in progress, if any
    written,      \* the records handed to Store.Write so far
    race,         \* two Store.Write calls for one session id, and the files they touch
    clock         \* time.Now()

vars == <<m, names, groups, home, sidebarFile, panes, launched, disk, pending, inbox,
          last, ctl, quickRetries, inputs, hooks, fsQueue, fsErrors, Events, Errors,
          watcher, files, wr, rd, written, race, clock>>

orchVars == <<m, names, groups, home, sidebarFile, panes, launched, pending, inbox,
              last, ctl, quickRetries, inputs>>

watcherVars == <<fsQueue, fsErrors, Events, Errors, watcher>>

storeVars == <<files, wr, rd, written, race>>

\* the Model together with the stores and the environment its handlers touch
World ==
    m @@ [names |-> names, groups |-> groups, home |-> home, sidebarFile |-> sidebarFile,
          panes |-> panes, launched |-> launched, disk |-> disk]

\* tui.New
NewModel ==
    [mode |-> "Normal", sessions |-> <<>>, selected |-> 0,
     lastCapture |-> "", vpContent |-> "", forceViewportRefresh |-> FALSE,
     pendingGotoBottom |-> FALSE, ready |-> FALSE, vp |-> 0, insertMode |-> FALSE,
     filterQuery |-> "", filtered |-> <<>>,
     reviewModel |-> FALSE, pickerModel |-> FALSE, worktreeModel |-> FALSE,
     renameKey |-> NoKey, groupSetKey |-> NoKey,
     cursorOnGroup |-> NoGroup, collapsedGroups |-> {},
     pendingSelectPane |-> "", pendingQuickRetried |-> FALSE,
     pinned |-> EmptyMap, pinCounter |-> 0, savedOrder |-> <<>>,
     sidebarDirty |-> FALSE, err |-> FALSE]

\* a command in flight; cur marks the commands of the latest Update step
InFlight(c, cur) == c @@ [cur |-> cur]

BagOf(cmds, cur) ==
    LET S == {InFlight(cmds[i], cur) : i \in DOMAIN cmds}
    IN [c \in S |-> Cardinality({i \in DOMAIN cmds : InFlight(cmds[i], cur) = c})]

\* the commands of earlier steps lose their mark
Demote(bag) ==
    LET S == {[c EXCEPT !.cur = FALSE] : c \in DOMAIN bag}
    IN [c \in S |-> (IF c \in DOMAIN bag THEN bag[c] ELSE 0)
                      + (IF [c EXCEPT !.cur = TRUE] \in DOMAIN bag
                         THEN bag[[c EXCEPT !.cur = TRUE]] ELSE 0)]

BagAdd(bag, x) == bag (+) SetToBag({x})

BagRemove(bag, x) == bag (-) SetToBag({x})

BagMax(bag) == IF DOMAIN bag = {} THEN 0 ELSE SetMax({bag[x] : x \in DOMAIN bag})

\* no Store.Write and no Store.ReadAll is running
\* main, the hook subcommand: os.Exit(1) when hook.Run returns an error
hookExit(err) == IF err THEN 1 ELSE 0

\* the hook process: where it is in Store.Write, and the exit status of the
\* latest invocation that ended (-1: none has ended, or one is running)
NoWrite == [pc |-> "idle", rec |-> NoRec, exit |-> -1]

NoRead == [pc |-> "idle", entries |-> <<>>, states |-> <<>>, had |-> {}, err |-> FALSE]

\* two hook processes call Store.Write for the same session id. A file is an
\* inode (named after the writer whose open created it, 0: none) holding
\* chunks; <<w, k>> is chunk k of the record of writer w, <<0, 0>> a hole
Writers == {1, 2}

Chunk(w, k) == <<w, k>>

\* json.Marshal of the record of writer w
Full(w) == [k \in 1..DataLen |-> Chunk(w, k)]

NoWrites ==
    [pc |-> [w \in Writers |-> "idle"], fd |-> [w \in Writers |-> 0],
     off |-> [w \in Writers |-> 0], tmp |-> 0, final |-> 0,
     data |-> [i \in Writers |-> <<>>]]

\* write(2) of chunk c at offset pos - 1
PutAt(seq, pos, c) ==
    [k \in 1..(IF Len(seq) > pos THEN Len(seq) ELSE pos) |->
       IF k = pos THEN c ELSE IF k <= Len(seq) THEN seq[k] ELSE <<0, 0>>]

\* Model.Init: the commands the program starts with
InitCmds == <<discoverSessions, tickCapture, tickSessionRefresh, waitForStateEvent>>

NoMsg == Msg("none")

\* New: the pins and the order come from the sidebar file
Load(side) ==
    [NewModel EXCEPT !.pinned = side.Pinned,
                     !.savedOrder = side.Order,
                     !.pinCounter = IF DOMAIN side.Pinned = {} THEN 0
                                    ELSE SetMax({side.Pinned[k] : k \in DOMAIN side.Pinned})]

NoSidebar == [Pinned |-> EmptyMap, Order |-> <<>>]

\* a variant of storeLoad that installs the map before it looks at the error
storeLoadPartial(file, data) ==
    CASE file.kind = "missing" -> [data |-> EmptyMap, err |-> FALSE]
      [] file.kind = "corrupt" -> [data |-> file.data, err |-> TRUE]
      [] OTHER -> [data |-> file.data, err |-> FALSE]

\* names.Store.Load, groups.Store.Load on a store that holds `data`
storeLoad(file, data) ==
    CASE file.kind = "missing" -> [data |-> EmptyMap, err |-> FALSE]
      [] file.kind = "corrupt" -> [data |-> data, err |-> TRUE]
      [] OTHER -> [data |-> file.data, err |-> FALSE]

\* sidebar.Store.Load: the sidebar file is a State, or a file that is missing
\* or does not decode
sidebarLoad(file) ==
    IF "kind" \notin DOMAIN file THEN [state |-> file, err |-> FALSE]
    ELSE IF file.kind = "missing" THEN [state |-> NoSidebar, err |-> FALSE]
    ELSE [state |-> Nil, err |-> TRUE]

\* New: the sidebar state is used only when sidebar.Load returned no error
New(file) == IF sidebarLoad(file).err THEN NewModel ELSE Load(sidebarLoad(file).state)

\* New: NewStore, then Load with its error ignored
newStore(file) == storeLoad(file, EmptyMap).data

NoDisk == [id \in Range(SessionIDs) |-> NoRec]

StartPanes == [p \in AllPanes |-> IF p \in Range(InitialPanes) THEN "claude" ELSE "none"]

\* the program starts with state directory d, panes ps, sidebar file side,
\* names file nf, groups file gf and the files fs in the state directory
InitFiles(d, ps, side, nf, gf, fs) ==
    /\ m = New(side)
    /\ names = newStore(nf)
    /\ groups = newStore(gf)
    /\ home = [names |-> nf, groups |-> gf]
    /\ sidebarFile = side
    /\ panes = ps
    /\ launched = 0
    /\ disk = d
    /\ pending = BagOf(InitCmds, FALSE)
    /\ inbox = EmptyBag
    /\ last = [msg |-> NoMsg, ok |-> TRUE, cmds |-> <<>>, prevSel |-> "", tog |-> FALSE]
    /\ ctl = <<>>
    /\ quickRetries = EmptyMap
    /\ inputs = 0
    /\ hooks = 0
    /\ fsQueue = <<>>
    /\ fsErrors = <<>>
    /\ Events = <<>>
    /\ Errors = <<>>
    /\ watcher = [done |-> FALSE, fwClosed |-> FALSE, exited |-> FALSE,
                  eventsClosed |-> FALSE, closedSeen |-> 0, dropped |-> 0, droppedErrs |-> 0,
                  errs |-> 0]
    /\ files = fs
    /\ wr = NoWrite
    /\ rd = NoRead
    /\ written = {}
    /\ race = NoWrites
    /\ clock = 1

\* the same with no names file and a groups file that holds gs
InitWith(d, ps, side, gs, fs) == InitFiles(d, ps, side, FileMissing, JsonFile(gs), fs)

InitAt(d, ps, side) == InitWith(d, ps, side, EmptyMap, EmptyMap)

Init == InitAt(NoDisk, StartPanes, NoSidebar)

\* ── The event loop ────────────────────────────────────────────────────────
\* the quick-retry discoveries among the commands of a step
QuickIn(cmds) == Len(SelectSeq(cmds, LAMBDA c : c = pendingDiscoveryTick))

\* the result r of a call of Update becomes the state; its commands go in flight
Commit(r, msg, ok, base) ==
    /\ BagMax(Demote(base) (+) BagOf(r.cmds, TRUE)) <= MaxDup
    /\ r.w.pinCounter <= MaxPin
    /\ m' = [f \in DOMAIN m |-> r.w[f]]
    /\ names' = r.w.names
    /\ groups' = r.w.groups
    /\ home' = r.w.home
    /\ sidebarFile' = r.w.sidebarFile
    /\ panes' = r.w.panes
    /\ launched' = r.w.launched
    /\ pending' = Demote(base) (+) BagOf(r.cmds, TRUE)
    /\ last' = [msg |-> msg, ok |-> ok, cmds |-> r.cmds, prevSel |-> SelPane(World),
                tog |-> ~last.tog]
    /\ ctl' = <<>>
    /\ quickRetries' =
         IF QuickIn(r.cmds) > 0
         THEN MapPut(quickRetries, m.pendingSelectPane,
                     MapGet(quickRetries, m.pendingSelectPane, 0) + QuickIn(r.cmds))
         ELSE quickRetries

\* one call of Model.Update on msg, with `base` the commands still in flight
Deliver(msg, ok, base) == Commit(Update(World, msg, ok), msg, ok, base)

\* ── User input ────────────────────────────────────────────────────────────
NormalKeys == {"up", "down", "insert", "refresh", "kill", "new", "worktree", "review",
               "filter", "rename", "togglegroup", "setgroup", "pin", "moveup", "movedown"}

SessionPanes(w) == {w.sessions[i].TmuxPane : i \in DOMAIN w.sessions}

\* the key presses that mean something to the handler of the current mode
KeyMsgsFor(w) ==
    CASE w.mode = "Normal" ->
           IF w.insertMode THEN {KeyMsg("ctrl+h", ""), KeyMsg("char", "")}
           ELSE {KeyMsg(k, "") : k \in NormalKeys}
      [] w.mode = "Review" -> {KeyMsg("submit", ""), KeyMsg("esc", "")}
      [] w.mode = "Picker" -> {KeyMsg("enter", ""), KeyMsg("esc", "")}
      [] w.mode = "Worktree" ->
           {KeyMsg("open", a) : a \in {""} \cup SessionPanes(w)}
             \cup {KeyMsg("remove", a) : a \in {""} \cup SessionPanes(w)}
             \cup {KeyMsg("create", ""), KeyMsg("esc", "")}
      [] w.mode = "Filter" ->
           {KeyMsg("esc", ""), KeyMsg("enter", ""), KeyMsg("backspace", "")}
             \cup (IF w.filterQuery = "" THEN {KeyMsg("type", q) : q \in Queries} ELSE {})
      [] w.mode = "Rename" ->
           {KeyMsg("esc", "")} \cup {KeyMsg("enter", a) : a \in {""} \cup Labels}
      [] w.mode = "GroupSet" ->
           {KeyMsg("esc", "")} \cup {KeyMsg("enter", a) : a \in {""} \cup GroupNames}
      [] OTHER -> {}

\* the outcomes of the external call a key press makes, when it makes one
Outcomes(w, msg) ==
    IF \/ (w.mode = "Normal" /\ ~w.insertMode /\ msg.key \in {"kill", "worktree", "review"})
       \/ (w.mode = "Normal" /\ w.insertMode /\ msg.key = "char")
       \/ (w.mode = "Picker" /\ msg.key = "enter")
    THEN BOOLEAN ELSE {TRUE}

\* a key press among the keys K
Press(K) ==
    /\ inputs < MaxInput
    /\ \E msg \in KeyMsgsFor(World) : \E ok \in Outcomes(World, msg) :
         /\ msg.key \in K
         /\ (m.mode = "Picker" /\ msg.key = "enter" /\ ok) => launched < MaxLaunch
         /\ Deliver(msg, ok, pending)
    /\ inputs' = inputs + 1
    /\ UNCHANGED <<storeVars, clock, disk, inbox, hooks, watcherVars>>

\* the terminal is resized
Resize ==
    /\ inputs < MaxInput
    /\ \E size \in 1..MaxVp :
         /\ size # m.vp
         /\ Deliver([type |-> "windowSize", size |-> size], TRUE, pending)
    /\ inputs' = inputs + 1
    /\ UNCHANGED <<storeVars, clock, disk, inbox, hooks, watcherVars>>

\* a left click on screen line y of the session pane
Click ==
    /\ inputs < MaxInput
    /\ \E y \in 0..MaxY : Deliver([type |-> "mouse", y |-> y], TRUE, pending)
    /\ inputs' = inputs + 1
    /\ UNCHANGED <<storeVars, clock, disk, inbox, hooks, watcherVars>>

\* ── Commands running ──────────────────────────────────────────────────────
Room == BagCardinality(inbox) < MaxInbox

Call(name, pane, size) == [call |-> name, pane |-> pane, size |-> size]

\* the control-plane log: only the calls of the latest step's commands are kept
Log(c, call) == IF c.cur THEN Append(ctl, call) ELSE ctl

\* tea.Tick of tickCapture fires: tickMsg
TickFires ==
    /\ \E c \in DOMAIN pending :
         /\ c.kind = "tick"
         /\ Deliver(Msg("tick"), TRUE, BagRemove(pending, c))
    /\ UNCHANGED <<storeVars, clock, disk, inbox, inputs, hooks, watcherVars>>

\* tea.Tick of tickSessionRefresh fires: sessionRefreshMsg
RefreshFires ==
    /\ \E c \in DOMAIN pending :
         /\ c.kind = "refresh"
         /\ Deliver(Msg("refresh"), TRUE, BagRemove(pending, c))
    /\ UNCHANGED <<storeVars, clock, disk, inbox, inputs, hooks, watcherVars>>

\* discoverSessions / pendingDiscoveryTick run: session.Discover
ExecDiscover ==
    /\ Room
    /\ \E c \in DOMAIN pending : \E readOk \in BOOLEAN : \E panesOk \in BOOLEAN :
         /\ c.kind \in {"discover", "quick"}
         /\ pending' = BagRemove(pending, c)
         /\ inbox' = BagAdd(inbox,
                            IF Discover(disk, panes, clock, readOk, panesOk).err
                            THEN Msg("err")
                            ELSE [type |-> "discovered",
                                  sessions |-> Discover(disk, panes, clock, readOk, panesOk).sessions])
    /\ UNCHANGED <<storeVars, clock, m, names, groups, home, sidebarFile, panes, launched, disk, last, ctl,
                   quickRetries, inputs, hooks, watcherVars>>

\* fetchCapture runs: CapturePane, no message when it fails
ExecFetch ==
    /\ Room
    /\ \E c \in DOMAIN pending :
         /\ c.kind = "fetch"
         /\ pending' = BagRemove(pending, c)
         /\ ctl' = Log(c, Call("capture", c.pane, 0))
         /\ \E ok \in BOOLEAN :
              IF panes[c.pane] = "none" \/ ~ok THEN inbox' = inbox
              ELSE \E content \in Contents :
                     inbox' = BagAdd(inbox, [type |-> "capture", pane |-> c.pane,
                                             content |-> content])
    /\ UNCHANGED <<storeVars, clock, m, names, groups, home, sidebarFile, panes, launched, disk, last,
                   quickRetries, inputs, hooks, watcherVars>>

\* resizePaneToViewport runs: ResizeWindow, its error ignored, no message
ExecResize ==
    /\ \E c \in DOMAIN pending :
         /\ c.kind = "resize"
         /\ pending' = BagRemove(pending, c)
         /\ ctl' = Log(c, Call("resize", c.pane, c.size))
    /\ UNCHANGED <<storeVars, clock, m, names, groups, home, sidebarFile, panes, launched, disk, inbox, last,
                   quickRetries, inputs, hooks, watcherVars>>

\* createAndLaunchWorktree runs: worktreeLaunchedMsg or errMsg
ExecLaunch ==
    /\ Room
    /\ \E c \in DOMAIN pending : \E ok \in BOOLEAN :
         /\ c.kind = "launch"
         /\ ok => launched < MaxLaunch
         /\ pending' = BagRemove(pending, c)
         /\ IF ok
            THEN /\ panes' = LaunchSession(World).panes
                 /\ launched' = launched + 1
                 /\ inbox' = BagAdd(inbox, [type |-> "launched", pane |-> NewPane(World)])
            ELSE /\ inbox' = BagAdd(inbox, Msg("err"))
                 /\ UNCHANGED <<panes, launched>>
    /\ UNCHANGED <<storeVars, clock, m, names, groups, home, sidebarFile, disk, last, ctl, quickRetries, inputs,
                   hooks, watcherVars>>

\* removeWorktree runs: KillPane, then worktreeRemovedMsg or errMsg
ExecRemove ==
    /\ Room
    /\ \E c \in DOMAIN pending : \E ok \in BOOLEAN :
         /\ c.kind = "remove"
         /\ pending' = BagRemove(pending, c)
         /\ panes' = IF c.pane # "" THEN [panes EXCEPT ![c.pane] = "none"] ELSE panes
         /\ inbox' = BagAdd(inbox, IF ok THEN [type |-> "removed", pane |-> c.pane]
                                   ELSE Msg("err"))
    /\ UNCHANGED <<storeVars, clock, m, names, groups, home, sidebarFile, launched, disk, last, ctl, quickRetries,
                   inputs, hooks, watcherVars>>

\* the runtime hands a command's message to Update
Process ==
    /\ \E msg \in DOMAIN inbox :
         /\ Deliver(msg, TRUE, pending)
         /\ inbox' = BagRemove(inbox, msg)
    /\ UNCHANGED <<storeVars, clock, disk, inputs, hooks, watcherVars>>

\* ── Environment ───────────────────────────────────────────────────────────
\* the launched shell starts the assistant in its pane
PaneStarts ==
    /\ \E p \in AllPanes :
         /\ panes[p] = "zsh"
         /\ panes' = [panes EXCEPT ![p] = "claude"]
    /\ UNCHANGED <<storeVars, clock, m, names, groups, home, sidebarFile, launched, disk, pending, inbox, last, ctl,
                   quickRetries, inputs, hooks, watcherVars>>

\* a pane goes away on its own
PaneExits ==
    /\ \E p \in AllPanes :
         /\ panes[p] # "none"
         /\ panes' = [panes EXCEPT ![p] = "none"]
    /\ UNCHANGED <<storeVars, clock, m, names, groups, home, sidebarFile, launched, disk, pending, inbox, last, ctl,
                   quickRetries, inputs, hooks, watcherVars>>

\* hook.process: the tool a hook event names, none once the turn has stopped
HookTool(st) == IF st = "working" THEN "Bash" ELSE ""

FsEvent(op, file, json) == [op |-> op, file |-> file, json |-> json]

\* Store.Write seen from fsnotify: <id>.json.tmp is written, then renamed
\* onto <id>.json, which shows as a create of the .json file
WriteEvents(id) == <<FsEvent("write", id, FALSE), FsEvent("create", id, TRUE)>>

\* fsnotify delivers while its watcher is open and the kernel queue has room
Notify(q, evs) == IF watcher.fwClosed \/ Len(q) + Len(evs) > MaxFs THEN q ELSE q \o evs

\* the hook of session id records state st: Store.Write
HookWrite ==
    /\ hooks < MaxHook
    /\ \E id \in Range(SessionIDs) : \E st \in HookStates :
         /\ panes[PaneOfID[id]] = "claude"
         /\ disk' = [disk EXCEPT ![id] =
                       [SessionID |-> id, TmuxPane |-> PaneOfID[id], State |-> st,
                        CurrentTool |-> HookTool(st), UpdatedAt |-> clock]]
         /\ fsQueue' = Notify(fsQueue, WriteEvents(id))
    /\ hooks' = hooks + 1
    /\ UNCHANGED <<storeVars, clock, orchVars, fsErrors, Events, Errors, watcher>>

\* what another program does to a file of the directory: it writes text that is
\* no JSON into <id>.json, writes <id>.txt, or removes <id>.json
ForeignOps == {"malformed", "text", "remove"}

ForeignEvents(what, id) ==
    CASE what = "malformed" -> <<FsEvent("create", id, TRUE), FsEvent("write", id, TRUE)>>
      [] what = "text" -> <<FsEvent("create", id, FALSE), FsEvent("write", id, FALSE)>>
      [] OTHER -> <<FsEvent("remove", id, TRUE)>>

ForeignWrite ==
    /\ hooks < MaxHook
    /\ \E id \in Range(SessionIDs) : \E what \in ForeignOps :
         /\ disk' = CASE what = "malformed" -> [disk EXCEPT ![id] = Malformed]
                      [] what = "remove" -> [disk EXCEPT ![id] = NoRec]
                      [] OTHER -> disk
         /\ fsQueue' = Notify(fsQueue, ForeignEvents(what, id))
    /\ hooks' = hooks + 1
    /\ UNCHANGED <<storeVars, clock, orchVars, fsErrors, Events, Errors, watcher>>

\* fsnotify reports an error, its k-th
FsError ==
    /\ ~watcher.fwClosed
    /\ watcher.errs < MaxErr
    /\ fsErrors' = Append(fsErrors, watcher.errs + 1)
    /\ watcher' = [watcher EXCEPT !.errs = @ + 1]
    /\ UNCHANGED <<storeVars, clock, orchVars, disk, hooks, fsQueue, Events, Errors>>

\* ── The watcher ───────────────────────────────────────────────────────────
\* a variant that makes room by dropping the oldest item
SendDropOldest(ch, x, cap) ==
    IF Len(ch) < cap THEN Append(ch, x) ELSE Append(Tail(ch), x)

\* select { case ch <- x: default: } on a channel of capacity cap
SendNonBlocking(ch, x, cap) == IF Len(ch) < cap THEN Append(ch, x) ELSE ch

\* a variant that returns without closing Events
loopReturnOpen(wt) == [wt EXCEPT !.exited = TRUE]

\* the deferred close(w.events) runs as loop returns
loopReturn(wt) == [wt EXCEPT !.exited = TRUE, !.eventsClosed = TRUE]

\* a variant that forwards the first record of the directory
RecordFirst(d, ev) == IF ReadAll(d) = <<>> THEN NoRec ELSE ReadAll(d)[1]

\* Store.Path(s.SessionID) == event.Name, for the first record that matches
RecordFor(d, ev) ==
    LET states == ReadAll(d)
        I == {i \in DOMAIN states : states[i].SessionID = ev.file}
    IN IF I = {} THEN NoRec ELSE states[SetMin(I)]

\* Watcher.loop, case <-w.done
LoopDone ==
    /\ ~watcher.exited
    /\ watcher.done
    /\ watcher' = loopReturn(watcher)
    /\ UNCHANGED <<storeVars, clock, orchVars, disk, hooks, fsQueue, fsErrors, Events, Errors>>

\* Watcher.loop, case event, ok := <-w.fw.Events
LoopEvent ==
    /\ ~watcher.exited
    /\ IF watcher.fwClosed
       THEN /\ watcher' = loopReturn(watcher)
            /\ UNCHANGED <<fsQueue, Events>>
       ELSE /\ fsQueue # <<>>
            /\ LET ev == Head(fsQueue)
                   rec == RecordFor(disk, ev)
                   send == ev.op \in {"write", "create"} /\ ev.json /\ rec # NoRec
               IN /\ fsQueue' = Tail(fsQueue)
                  /\ Events' = IF send THEN SendNonBlocking(Events, rec, EventsCap)
                               ELSE Events
                  /\ watcher' = [watcher EXCEPT !.dropped =
                                   IF send /\ Len(Events) >= EventsCap THEN @ + 1 ELSE @]
    /\ UNCHANGED <<storeVars, clock, orchVars, disk, hooks, fsErrors, Errors>>

\* Watcher.loop, case err, ok := <-w.fw.Errors
LoopError ==
    /\ ~watcher.exited
    /\ IF watcher.fwClosed
       THEN /\ watcher' = loopReturn(watcher)
            /\ UNCHANGED <<fsErrors, Errors>>
       ELSE /\ fsErrors # <<>>
            /\ fsErrors' = Tail(fsErrors)
            /\ Errors' = SendNonBlocking(Errors, Head(fsErrors), ErrorsCap)
            /\ watcher' = [watcher EXCEPT !.droppedErrs =
                             IF Len(Errors) >= ErrorsCap THEN @ + 1 ELSE @]
    /\ UNCHANGED <<storeVars, clock, orchVars, disk, hooks, fsQueue, Events>>

\* Watcher.Close, first statement: close(w.done)
CloseDone ==
    /\ ~watcher.done
    /\ watcher' = [watcher EXCEPT !.done = TRUE]
    /\ UNCHANGED <<storeVars, clock, orchVars, disk, hooks, fsQueue, fsErrors, Events, Errors>>

\* Watcher.Close, second statement: w.fw.Close()
CloseFw ==
    /\ watcher.done
    /\ ~watcher.fwClosed
    /\ watcher' = [watcher EXCEPT !.fwClosed = TRUE]
    /\ fsQueue' = <<>>
    /\ fsErrors' = <<>>
    /\ UNCHANGED <<storeVars, clock, orchVars, disk, hooks, Events, Errors>>

\* waitForStateEvent runs: ev, ok := <-w.Events
ExecWait ==
    /\ \E c \in DOMAIN pending :
         /\ c.kind = "wait"
         /\ IF Events # <<>>
            THEN /\ Room
                 /\ Events' = Tail(Events)
                 /\ inbox' = BagAdd(inbox, [type |-> "stateUpdate", rec |-> Head(Events)])
                 /\ pending' = BagRemove(pending, c)
                 /\ UNCHANGED watcher
            ELSE /\ watcher.eventsClosed
                 /\ watcher' = [watcher EXCEPT !.closedSeen = @ + 1]
                 /\ pending' = BagRemove(pending, c)
                 /\ UNCHANGED <<Events, inbox>>
    /\ UNCHANGED <<storeVars, clock, m, names, groups, home, sidebarFile, panes, launched, disk, last, ctl,
                   quickRetries, inputs, hooks, fsQueue, fsErrors, Errors>>

\* time passes
Tock ==
    /\ clock < MaxClock
    /\ clock' = clock + 1
    /\ UNCHANGED <<orchVars, watcherVars, storeVars, disk, hooks>>

\* ── The store, file operation by file operation ───────────────────────────
\* Store.Path and the temporary name Store.Write uses
Path(sessionID) == [id |-> sessionID, ext |-> ".json"]

\* a variant that writes onto the final path itself
pathInPlace(sessionID) == Path(sessionID)

\* tmp := s.Path(ss.SessionID) + ".tmp"
tmpPath(sessionID) == [id |-> sessionID, ext |-> ".tmp"]

\* filepath.Ext of a name of the directory
Ext(name) == name.ext

\* the state directory itself: an entry of the file system while it exists
DirSelf == [id |-> ".", ext |-> ""]

\* os.ReadDir: the names of the directory, sorted by file name
DirNames ==
    <<Path("a"), tmpPath("a"), Path("b"), tmpPath("b"),
      [id |-> "readme", ext |-> ".txt"], Path("subdir")>>

\* json.Marshal: the record as DataLen chunks of bytes, n of them on disk;
\* kind tells a regular file from a directory and from a file that cannot be opened
Marshal(rec) == [rec |-> rec, n |-> DataLen, kind |-> "file"]

\* a variant of json.Unmarshal that reports no error
UnmarshalLenient(data) == [ok |-> TRUE, rec |-> data.rec]

\* json.Unmarshal: an error unless the bytes are a whole document; a field the
\* document lacks keeps its zero value
Unmarshal(data) ==
    IF data.n = DataLen THEN [ok |-> TRUE, rec |-> data.rec] ELSE [ok |-> FALSE, rec |-> NoRec]

\* Store.Write, os.MkdirAll and os.WriteFile(tmp, ...): the directory exists, the
\* file is created or truncated
WriteOpen ==
    /\ wr.pc = "idle"
    /\ hooks < MaxHook
    /\ \E id \in Range(SessionIDs) : \E st \in HookStates :
         LET rec == [SessionID |-> id, TmuxPane |-> PaneOfID[id], State |-> st,
                     CurrentTool |-> HookTool(st), UpdatedAt |-> clock]
         IN /\ files' = MapPut(MapPut(files, DirSelf, [Marshal(NoRec) EXCEPT !.kind = "dir"]),
                              tmpPath(id), [Marshal(rec) EXCEPT !.n = 0])
            /\ wr' = [pc |-> "writing", rec |-> rec, exit |-> -1]
            /\ written' = written \cup {rec}
    /\ hooks' = hooks + 1
    /\ UNCHANGED <<orchVars, watcherVars, disk, race, rd, clock>>

\* Store.Write, os.WriteFile(tmp, ...): the next chunk reaches the file
WriteData ==
    /\ wr.pc = "writing"
    /\ LET f == tmpPath(wr.rec.SessionID)
       IN /\ files' = [files EXCEPT ![f].n = @ + 1]
          /\ wr' = [wr EXCEPT !.pc = IF files[f].n + 1 = Marshal(wr.rec).n
                                     THEN "rename" ELSE "writing"]
    /\ UNCHANGED <<orchVars, watcherVars, disk, race, hooks, rd, written, clock>>

\* hook.process ends without a write: stdin does not decode (error), the
\* event has no session_id (nil), or Store.Write fails at os.MkdirAll (error)
HookReturns ==
    /\ wr.pc = "idle"
    /\ hooks < MaxHook
    /\ \E why \in {"decode", "nosession", "mkdir"} :
         wr' = [NoWrite EXCEPT !.exit = hookExit(why # "nosession")]
    /\ hooks' = hooks + 1
    /\ UNCHANGED <<orchVars, watcherVars, disk, race, files, rd, written, clock>>

\* Store.Write, os.WriteFile fails part-way or os.Rename fails: Write returns
\* the error, process returns it, and main exits
WriteFails ==
    /\ wr.pc \in {"writing", "rename"}
    /\ wr' = [NoWrite EXCEPT !.exit = hookExit(TRUE)]
    /\ UNCHANGED <<orchVars, watcherVars, disk, race, hooks, files, rd, written, clock>>

\* Store.Write, os.Rename(tmp, s.Path(ss.SessionID))
WriteRename ==
    /\ wr.pc = "rename"
    /\ LET from == tmpPath(wr.rec.SessionID)
           to == Path(wr.rec.SessionID)
       IN files' = IF from = to THEN files ELSE MapPut(MapDel(files, from), to, files[from])
    /\ wr' = [NoWrite EXCEPT !.exit = hookExit(FALSE)]
    /\ UNCHANGED <<orchVars, watcherVars, disk, race, hooks, rd, written, clock>>

\* Store.Write of writer w, os.WriteFile(tmp, ...): open with O_CREATE|O_TRUNC;
\* both writers use the same path <id>.json.tmp
RaceOpen ==
    /\ \E w \in Writers :
         /\ race.pc[w] = "idle"
         /\ LET ino == IF race.tmp # 0 THEN race.tmp ELSE w
            IN race' = [race EXCEPT !.pc[w] = "writing", !.fd[w] = ino, !.off[w] = 0,
                                    !.tmp = ino, !.data[ino] = <<>>]
    /\ UNCHANGED <<orchVars, watcherVars, disk, hooks, files, wr, rd, written, clock>>

\* Store.Write of writer w, os.WriteFile: the next chunk goes to the open file
RaceData ==
    /\ \E w \in Writers :
         /\ race.pc[w] = "writing"
         /\ race' = [race EXCEPT
                       !.data[race.fd[w]] = PutAt(@, race.off[w] + 1, Chunk(w, race.off[w] + 1)),
                       !.off[w] = @ + 1,
                       !.pc[w] = IF race.off[w] + 1 = DataLen THEN "rename" ELSE "writing"]
    /\ UNCHANGED <<orchVars, watcherVars, disk, hooks, files, wr, rd, written, clock>>

\* Store.Write of writer w, os.Rename(tmp, s.Path(id)): an error when the
\* other writer has renamed the file away
RaceRename ==
    /\ \E w \in Writers :
         /\ race.pc[w] = "rename"
         /\ race' = IF race.tmp = 0 THEN [race EXCEPT !.pc[w] = "failed"]
                    ELSE [race EXCEPT !.pc[w] = "done", !.final = race.tmp, !.tmp = 0]
    /\ UNCHANGED <<orchVars, watcherVars, disk, hooks, files, wr, rd, written, clock>>

\* Store.ReadAll, os.ReadDir(s.dir): nil, nil when the directory does not exist,
\* nil, err when it cannot be read
ReadDir ==
    /\ rd.pc = "idle"
    /\ IF DirSelf \notin DOMAIN files
       THEN rd' = [NoRead EXCEPT !.pc = "returned"]
       ELSE \E ok \in BOOLEAN :
              rd' = IF ok
                    THEN [pc |-> "reading",
                          entries |-> SelectSeq(DirNames, LAMBDA f : f \in DOMAIN files),
                          states |-> <<>>,
                          had |-> {f.id : f \in {g \in DOMAIN files : Ext(g) = ".json"}},
                          err |-> FALSE]
                    ELSE [NoRead EXCEPT !.pc = "returned", !.err = TRUE]
    /\ UNCHANGED <<orchVars, watcherVars, disk, race, hooks, files, wr, written, clock>>

\* Store.ReadAll, one turn of the loop over the entries
ReadFile ==
    /\ rd.pc = "reading"
    /\ rd.entries # <<>>
    /\ LET e == Head(rd.entries)
           opens == e \in DOMAIN files /\ files[e].kind = "file"
           isDir == e \in DOMAIN files /\ files[e].kind = "dir"
           got == IF opens THEN Unmarshal(files[e]) ELSE [ok |-> FALSE, rec |-> NoRec]
       IN rd' = [rd EXCEPT !.entries = Tail(@),
                           !.states = IF ~isDir /\ Ext(e) = ".json" /\ got.ok
                                      THEN Append(@, got.rec) ELSE @]
    /\ UNCHANGED <<orchVars, watcherVars, disk, race, hooks, files, wr, written, clock>>

\* Store.ReadAll, return states, nil
ReadReturn ==
    /\ rd.pc = "reading"
    /\ rd.entries = <<>>
    /\ rd' = [rd EXCEPT !.pc = "returned"]
    /\ UNCHANGED <<orchVars, watcherVars, disk, race, hooks, files, wr, written, clock>>

\* the caller has the result; the next ReadAll may start
ReadAgain ==
    /\ rd.pc = "returned"
    /\ rd' = NoRead
    /\ UNCHANGED <<orchVars, watcherVars, disk, race, hooks, files, wr, written, clock>>

\* ── Specifications ────────────────────────────────────────────────────────
Commands ==
    \/ TickFires \/ RefreshFires \/ ExecDiscover \/ ExecFetch \/ ExecResize
    \/ ExecLaunch \/ ExecRemove \/ ExecWait \/ Process

WatcherSteps == LoopDone \/ LoopEvent \/ LoopError \/ CloseDone \/ CloseFw

AllKeys ==
    NormalKeys \cup {"ctrl+h", "char", "submit", "esc", "enter", "open", "remove", "create",
                     "backspace", "type"}

StoreSteps ==
    \/ RaceOpen \/ RaceData \/ RaceRename
    \/ HookReturns \/ WriteOpen \/ WriteData \/ WriteFails \/ WriteRename
    \/ ReadDir \/ ReadFile \/ ReadReturn \/ ReadAgain

Next ==
    \/ Press(AllKeys) \/ Resize \/ Click
    \/ Commands
    \/ PaneStarts \/ PaneExits \/ HookWrite \/ ForeignWrite \/ FsError
    \/ WatcherSteps
    \/ StoreSteps
    \/ Tock

Spec == Init /\ [][Next]_vars

\* The component specifications below run the same program from the same
\* initial state with part of the input and of the scheduling switched off.

\* modes: entering and leaving the filter while the timers and the polling run
ModeKeys == {"filter", "esc", "enter"}

NextModes ==
    \/ Press(ModeKeys)
    \/ TickFires \/ RefreshFires \/ ExecDiscover \/ ExecFetch \/ Process

ModeSpec == Init /\ [][NextModes]_vars

\* selection: moving through the list while panes go away
SelectKeys == {"up", "down", "refresh"}

NextSelect ==
    \/ Press(SelectKeys) \/ Resize \/ Click
    \/ ExecDiscover \/ ExecFetch \/ ExecResize \/ Process
    \/ PaneExits

SelectSpec == Init /\ [][NextSelect]_vars

\* launches: from the picker and from the worktree view
LaunchKeys == {"new", "enter", "worktree", "create"}

NextLaunch ==
    \/ Press(LaunchKeys)
    \/ ExecDiscover \/ ExecLaunch \/ Process
    \/ PaneStarts

LaunchSpec == Init /\ [][NextLaunch]_vars

\* rediscovery: hooks write while the slow timer runs
SyncKeys == {"filter"}

NextSync ==
    \/ Press(SyncKeys)
    \/ RefreshFires \/ ExecDiscover \/ Process
    \/ HookWrite

SyncSpec == Init /\ [][NextSync]_vars

\* the watcher with the orchestrator as the consumer of its events
NextWatcher ==
    \/ HookWrite \/ FsError
    \/ LoopDone \/ LoopEvent \/ LoopError \/ CloseDone \/ CloseFw
    \/ ExecWait \/ Process

WatcherSpec == Init /\ [][NextWatcher]_vars

\* closing the watcher while hooks write: the loop's goroutine, the goroutine
\* of the wait command and the runtime's own loop are scheduled
NextClose ==
    \/ HookWrite
    \/ LoopDone \/ LoopEvent \/ LoopError \/ CloseDone \/ CloseFw
    \/ ExecWait \/ Process

WatcherFair ==
    /\ Init /\ [][NextClose]_vars
    /\ WF_vars(LoopDone) /\ WF_vars(ExecWait) /\ WF_vars(Process)

\* the store: hooks write while a reader lists and reads the directory
NextStore ==
    \/ WriteOpen \/ WriteData \/ WriteFails \/ WriteRename
    \/ ReadDir \/ ReadFile \/ ReadReturn \/ ReadAgain

StoreSpec == Init /\ [][NextStore]_vars

\* discovery from any state directory and any set of live panes
Disks ==
    [Range(SessionIDs) ->
       {NoRec} \cup {[SessionID |-> "", TmuxPane |-> p, State |-> "working",
                      CurrentTool |-> HookTool("working"), UpdatedAt |-> 1] :
                        p \in {"%1", "%2", "%3"}}]

DiskOf(f) == [id \in DOMAIN f |-> IF f[id] = NoRec THEN NoRec ELSE [f[id] EXCEPT !.SessionID = id]]

PaneSets ==
    {ps \in [AllPanes -> {"none", "claude", "zsh"}] :
        ps["%1"] = "claude" /\ ps["%2"] # "zsh" /\ ps["%3"] # "zsh"}

InitDiscover == \E f \in Disks : \E ps \in PaneSets : InitAt(DiskOf(f), ps, NoSidebar)

NextDiscover == RefreshFires \/ ExecDiscover \/ Process \/ Tock

DiscoverSpec == InitDiscover /\ [][NextDiscover]_vars

\* ── Claims ────────────────────────────────────────────────────────────────
\* the step is a call of Update
\* ── Pins and order: the program starts from a sidebar file of an earlier run ──
PaneKey(p) == <<"pane", p>>

SidebarFiles ==
    {NoSidebar,
     [Pinned |-> EmptyMap, Order |-> <<PaneKey("%3")>>],
     [Pinned |-> EmptyMap, Order |-> <<PaneKey("%3"), PaneKey("%2")>>],
     [Pinned |-> MapPut(EmptyMap, PaneKey("%2"), 1), Order |-> <<PaneKey("%1"), PaneKey("%2")>>],
     [Pinned |-> MapPut(MapPut(EmptyMap, PaneKey("%3"), 1), PaneKey("%1"), 2),
      Order |-> <<PaneKey("%3"), PaneKey("%1")>>]}

SidebarPanes ==
    {[p \in AllPanes |-> IF p \in live THEN "claude" ELSE "none"] :
       live \in {{"%1", "%2", "%3"}, {"%2", "%3", "%4"}, AllPanes}}

InitSidebar == \E ps \in SidebarPanes : \E side \in SidebarFiles : InitAt(NoDisk, ps, side)

SidebarKeys == {"pin", "up", "down", "refresh"}

NextSidebar == Press(SidebarKeys) \/ ExecDiscover \/ Process

SidebarSpec == InitSidebar /\ [][NextSidebar]_vars

\* ── Pins while hooks confirm the sessions ─────────────────────────────────
ConfirmKeys == {"pin", "refresh"}

NextConfirm == Press(ConfirmKeys) \/ HookWrite \/ ExecDiscover \/ Process

ConfirmSpec == Init /\ [][NextConfirm]_vars

\* ── Pins and groups while panes exit ──────────────────────────────────────
PruneKeys == {"pin", "setgroup", "enter", "refresh"}

NextPrune == Press(PruneKeys) \/ PaneExits \/ ExecDiscover \/ Process

PruneSpec == Init /\ [][NextPrune]_vars

\* ── Groups: the program starts from a group file of an earlier run ────────
GroupFiles ==
    {MapPut(MapPut(EmptyMap, PaneKey("%1"), "g"), PaneKey("%3"), "g"),
     MapPut(MapPut(MapPut(EmptyMap, PaneKey("%1"), "g"), PaneKey("%3"), "g"),
            PaneKey("%2"), "h"),
     MapPut(MapPut(MapPut(EmptyMap, PaneKey("%2"), "g"), PaneKey("%3"), "g"),
            PaneKey("%4"), "g")}

InitGroups ==
    \E ps \in SidebarPanes : \E gs \in GroupFiles : InitWith(NoDisk, ps, NoSidebar, gs, EmptyMap)

GroupKeys == {"togglegroup", "up", "down"}

NextGroups == Press(GroupKeys) \/ ExecDiscover \/ Process

GroupSpec == InitGroups /\ [][NextGroups]_vars

\* ── Hooks writing into a state directory of an earlier run ────────────────
NextMerge == HookWrite \/ ExecDiscover \/ Process \/ Tock

MergeSpec == InitDiscover /\ [][NextMerge]_vars

\* ── Reading a state directory of an earlier run ──────────────────────────
\* what a.json may hold: a whole record, half a document, an object without
\* the fields of a record, a record in a file that cannot be opened
FilesOfA ==
    {[rec |-> [SessionID |-> "a", TmuxPane |-> "%1", State |-> "idle", CurrentTool |-> "",
               UpdatedAt |-> 1], n |-> n, kind |-> k] :
        n \in {1, DataLen}, k \in {"file", "locked"}}
      \cup {Marshal(NoRec)}

OtherFiles ==
    [{Path("b"), [id |-> "readme", ext |-> ".txt"]} ->
       {Marshal([SessionID |-> "b", TmuxPane |-> "%2", State |-> "working",
                 CurrentTool |-> "Bash", UpdatedAt |-> 1])}]

StateDirs ==
    {EmptyMap}
      \cup {(DirSelf :> [Marshal(NoRec) EXCEPT !.kind = "dir"]) @@ MapRestrict(o, S) @@ sub @@ fa :
              o \in OtherFiles, S \in SUBSET {Path("b"), [id |-> "readme", ext |-> ".txt"]},
              sub \in {EmptyMap, (Path("subdir") :> [Marshal(NoRec) EXCEPT !.kind = "dir"])},
              fa \in {EmptyMap} \cup {(Path("a") :> c) : c \in FilesOfA}}

InitRead == \E fs \in StateDirs : InitWith(NoDisk, StartPanes, NoSidebar, EmptyMap, fs)

NextRead == ReadDir \/ ReadFile \/ ReadReturn \/ ReadAgain

ReadSpec == InitRead /\ [][NextRead]_vars

\* ── The watcher while hooks and other programs write into the directory ──
NextForeign == HookWrite \/ ForeignWrite \/ LoopEvent \/ ExecWait \/ Process

ForeignSpec == Init /\ [][NextForeign]_vars

\* ── Discovery over panes that run other commands ─────────────────────────
PaneCmds == {"none", "claude", "zsh", "2.1.3", "2.1"}

CmdSets ==
    {ps \in [AllPanes -> PaneCmds] : ps["%1"] \in {"none", "claude"} /\ ps["%2"] \in {"none", "claude"}}

InitClassify == \E f \in Disks : \E ps \in CmdSets : InitAt(DiskOf(f), ps, NoSidebar)

NextClassify == ExecDiscover \/ Process

ClassifySpec == InitClassify /\ [][NextClassify]_vars

Stepped == last'.tog # last.tog

\* the step left the model and returned the commands of the result r
StepIs(r) == m' = [f \in DOMAIN m |-> r.w[f]] /\ last'.cmds = r.cmds

Issued(c) == c \in Range(last'.cmds)

BackgroundTypes == {"tick", "refresh", "discovered", "stateUpdate"}

\* C1: in a mode other than Normal, a timer tick, a discovery result or a
\* watcher event is handled exactly as the Normal handler handles it.
C1_BackgroundHandledAsNormal ==
    [][(Stepped /\ m.mode # "Normal" /\ last'.msg.type \in BackgroundTypes)
         => StepIs(updateNormal(World, last'.msg, last'.ok))]_vars

\* C2: a step that takes the mode from a non-Normal mode back to Normal leaves
\* no sub-model and no edited key behind, empties the cached capture, and
\* returns both the fast-timer and the slow-timer command.
C2_LeavingModeResumes ==
    [][(Stepped /\ m.mode # "Normal" /\ m'.mode = "Normal")
         => /\ ~m'.reviewModel /\ ~m'.pickerModel /\ ~m'.worktreeModel
            /\ m'.renameKey = NoKey /\ m'.groupSetKey = NoKey
            /\ m'.lastCapture = ""
            /\ Issued(tickCapture) /\ Issued(tickSessionRefresh)]_vars

\* the step moved the selection from one session to another, the viewport
\* having a size
SelectionMoves ==
    /\ Stepped
    /\ m.ready
    /\ SelPane(World) # ""
    /\ SelPane(World)' # ""
    /\ SelPane(World)' # SelPane(World)

\* C3: a step that changes the selected session empties the cached capture,
\* returns a resize of the new pane to the viewport's size and a fetch of the
\* new pane, and sets the jump-to-bottom mark.
C3_SelectionChangeProtocol ==
    [][SelectionMoves
         => /\ m'.lastCapture = ""
            /\ m'.pendingGotoBottom
            /\ Issued(Cmd("resize", SelPane(World)', m'.vp))
            /\ Issued(fetchCapture(SelPane(World)'))]_vars

IsPrefix(s, t) == Len(s) <= Len(t) /\ \A i \in DOMAIN s : s[i] = t[i]

\* the latest step was a key press or a click that selected another session,
\* the viewport having a size
Reselected ==
    /\ last.msg.type \in {"key", "mouse"}
    /\ m.ready
    /\ last.prevSel # ""
    /\ SelPane(World) # ""
    /\ last.prevSel # SelPane(World)

\* C4: after another session is selected the control plane receives one resize
\* of the new pane, then one capture of the new pane, and nothing else from
\* that step; the jump-to-bottom flag is set.
C4_ResizeThenFetchOnce ==
    Reselected
      => LET want == <<Call("resize", SelPane(World), m.vp),
                       Call("capture", SelPane(World), 0)>>
         IN /\ IsPrefix(ctl, want)
            /\ (\A c \in DOMAIN pending : ~c.cur) => ctl = want
            /\ m.pendingGotoBottom

\* the condition under which a capture result is applied
Applies(w, msg) ==
    /\ HasSel(w)
    /\ SelPane(w) = msg.pane
    /\ (msg.content # w.lastCapture \/ w.forceViewportRefresh)

\* C5: a capture result is applied when its pane is the selected pane and its
\* content differs from the last applied content or the invalidation flag is
\* set; otherwise the model is left as it was.
C5_CaptureAppliedIff ==
    [][(Stepped /\ last'.msg.type = "capture")
         => IF Applies(World, last'.msg)
            THEN m'.lastCapture = last'.msg.content /\ m'.vpContent = last'.msg.content
            ELSE m' = m]_vars

\* C6: a discovery result that contains the pending pane clears the marker,
\* selects that session, empties the cached capture, sets the jump-to-bottom
\* mark and returns a fetch of the pane (and a resize when the viewport has a
\* size).
C6_PendingPaneSelected ==
    [][(/\ Stepped
        /\ last'.msg.type = "discovered"
        /\ m.pendingSelectPane # ""
        /\ IndexOfPane(last'.msg.sessions, m.pendingSelectPane) > 0)
         => /\ m'.pendingSelectPane = ""
            /\ SelPane(World)' = m.pendingSelectPane
            /\ m'.lastCapture = ""
            /\ m'.pendingGotoBottom
            /\ Issued(fetchCapture(m.pendingSelectPane))
            /\ m.ready => Issued(Cmd("resize", m.pendingSelectPane, m.vp))]_vars

\* C7: once a discovery result has been processed that lacks the pending
\* pane, exactly one quick-retry discovery has been scheduled for that pane,
\* and never more than one for any pane.
C7_OneQuickRetry ==
    [][(Stepped /\ last'.msg.type = "discovered")
         => /\ m'.pendingSelectPane # ""
                 => MapGet(quickRetries', m'.pendingSelectPane, 0) = 1
            /\ \A p \in DOMAIN quickRetries' : quickRetries'[p] <= 1]_vars

\* the loop took an fsnotify event / an fsnotify error
TookEvent == fsQueue # <<>> /\ fsQueue' = Tail(fsQueue) /\ ~watcher'.fwClosed

TookError == fsErrors # <<>> /\ fsErrors' = Tail(fsErrors) /\ ~watcher'.fwClosed

\* C8: the loop takes the next event (error) whether or not the channel it
\* forwards to is full; a full channel is left as it is, otherwise the queued
\* items stay in place and at most the new one is added behind them.
C8_DropNewest ==
    /\ [][/\ TookEvent => IF Len(Events) >= EventsCap THEN Events' = Events
                          ELSE IsPrefix(Events, Events') /\ Len(Events') <= Len(Events) + 1
          /\ TookError => IF Len(Errors) >= ErrorsCap THEN Errors' = Errors
                          ELSE Errors' = Append(Errors, Head(fsErrors))]_vars
    /\ [](~watcher.exited /\ ~watcher.fwClosed /\ fsQueue # <<>> => ENABLED LoopEvent)
    /\ [](~watcher.exited /\ ~watcher.fwClosed /\ fsErrors # <<>> => ENABLED LoopError)

\* both channels were full when an item arrived, and the item was dropped
C8_Dropped ==
    /\ watcher.dropped > 0
    /\ watcher.droppedErrs > 0
    /\ Len(Events) = EventsCap
    /\ Len(Errors) = ErrorsCap

InFlightKinds == {c.kind : c \in DOMAIN pending}

InboxTypes == {msg.type : msg \in DOMAIN inbox}

InSync(sessions, d) ==
    \A i \in DOMAIN sessions : \A id \in DOMAIN d :
        (/\ d[id] # NoRec
         /\ \/ sessions[i].ID = id
            \/ sessions[i].ID = "" /\ sessions[i].TmuxPane = d[id].TmuxPane)
          => sessions[i].State = ParseState(d[id].State)

\* C10: once a rediscovery result has been processed, each session's state is
\* the state of its record on disk.
C10_RediscoveryResyncs ==
    [][(Stepped /\ last'.msg.type = "discovered") => InSync(m'.sessions, disk')]_vars

\* C11: whatever a ReadAll that ran while records were being written returns,
\* each returned record is a whole record that was handed to Write, and a
\* session whose file was there when the directory was listed has exactly one
\* record in the result.
C11_NoPartialRead ==
    rd.pc = "returned"
      => /\ \A i \in DOMAIN rd.states : rd.states[i] \in written
         /\ \A id \in rd.had :
              Cardinality({i \in DOMAIN rd.states : rd.states[i].SessionID = id}) = 1

\* a ReadAll returned the record of a session while a Write for that session
\* had part of its bytes on disk
C11_ReadDuringWrite ==
    /\ rd.pc = "returned"
    /\ wr.pc = "writing"
    /\ wr.rec.SessionID \in rd.had
    /\ files[tmpPath(wr.rec.SessionID)].n > 0
    /\ \E i \in DOMAIN rd.states : rd.states[i].SessionID = wr.rec.SessionID

\* the discovery results waiting to be processed
Discovered == {msg \in DOMAIN inbox : msg.type = "discovered"}

\* C12: every session of a discovery result is on a live pane, and a record
\* whose pane is not live gives no session.
C12_OnlyLivePanes ==
    \A msg \in Discovered :
        /\ \A i \in DOMAIN msg.sessions : panes[msg.sessions[i].TmuxPane] # "none"
        /\ \A id \in DOMAIN disk :
              (disk[id] # NoRec /\ panes[disk[id].TmuxPane] = "none")
                => \A i \in DOMAIN msg.sessions : msg.sessions[i].ID # id

\* a result was computed from a directory with one stale and one live record
C12_StaleDropped ==
    /\ Discovered # {}
    /\ \E id \in DOMAIN disk : disk[id] # NoRec /\ panes[disk[id].TmuxPane] = "none"
    /\ \E msg \in Discovered : \E i \in DOMAIN msg.sessions : msg.sessions[i].ID # ""

\* C13: two discovery results computed from the same state directory and the
\* same live panes are the same list.
C13_Idempotent == \A a \in Discovered : \A b \in Discovered : a = b

\* the position of x in the sequence s
PosIn(s, x) == SetMin({i \in DOMAIN s : s[i] = x})

\* C14: a discovery result holds the sessions of the live records first, in
\* the order of the records, then the sessions of the other assistant panes,
\* in the order of the pane inventory, and leaves none out.
C14_HookedThenFallback ==
    \A msg \in Discovered :
        LET S == msg.sessions
            liveIDs == {id \in DOMAIN disk : disk[id] # NoRec /\ panes[disk[id].TmuxPane] # "none"}
            covered == {disk[id].TmuxPane : id \in liveIDs}
            rest == {p \in AllPanes : panes[p] = "claude" /\ p \notin covered}
        IN /\ \A i \in DOMAIN S : \A j \in DOMAIN S :
                 i < j => \/ S[i].ID # "" /\ S[j].ID = ""
                          \/ /\ S[i].ID # "" /\ S[j].ID # ""
                             /\ PosIn(SessionIDs, S[i].ID) < PosIn(SessionIDs, S[j].ID)
                          \/ /\ S[i].ID = "" /\ S[j].ID = ""
                             /\ PosIn(PaneOrder, S[i].TmuxPane) < PosIn(PaneOrder, S[j].TmuxPane)
           /\ {S[i].ID : i \in DOMAIN S} \ {""} = liveIDs
           /\ {S[i].TmuxPane : i \in {k \in DOMAIN S : S[k].ID = ""}} = rest

\* a result with two sessions from records and two fallback sessions
C14_TwoAndTwo ==
    \E msg \in Discovered :
        /\ Cardinality({i \in DOMAIN msg.sessions : msg.sessions[i].ID # ""}) = 2
        /\ Cardinality({i \in DOMAIN msg.sessions : msg.sessions[i].ID = ""}) = 2

\* no two sessions of the list have the same Key
KeysUnique(sessions) ==
    \A i \in DOMAIN sessions : \A j \in DOMAIN sessions :
        i # j => Key(sessions[i]) # Key(sessions[j])

\* C15: no two sessions of a discovery result, and no two sessions of the
\* model's list, have the same Key.
C15_KeysUnique ==
    /\ KeysUnique(m.sessions)
    /\ \A msg \in Discovered : KeysUnique(msg.sessions)

\* the session s carries the fields of a session of the list on the same pane
CarriedForward(s, sessions) ==
    \E k \in DOMAIN sessions :
        /\ sessions[k].TmuxPane = s.TmuxPane
        /\ sessions[k].ID = s.ID
        /\ sessions[k].State = s.State
        /\ sessions[k].CurrentTool = s.CurrentTool
        /\ sessions[k].UpdatedAt = s.UpdatedAt

\* C20: when a discovery result is processed, the merge gives each incoming
\* session whose pane was in the list the ID, State, CurrentTool and UpdatedAt
\* of the session that was on that pane.
C20_MergeCarriesForward ==
    [][(Stepped /\ last'.msg.type = "discovered" /\ m.mode = "Normal")
         => LET merged == mergeDiscovered(World, last'.msg.sessions)
            IN \A i \in DOMAIN merged :
                 merged[i].TmuxPane \in SessionPanes(World)
                   => CarriedForward(merged[i], m.sessions)]_vars

\* C16: a pin made while a session's ID was still empty continues to apply to
\* the same session after a hook event has set its ID: whenever a step gives an
\* ID to a listed session that was pinned under its pane key, the session is
\* still pinned after the step.
C16_PinSurvivesConfirmation ==
    [][(Stepped /\ last'.msg.type = "discovered")
         => \A i \in DOMAIN m.sessions : \A j \in DOMAIN m'.sessions :
              (/\ m.sessions[i].ID = ""
               /\ Key(m.sessions[i]) \in DOMAIN m.pinned
               /\ m'.sessions[j].TmuxPane = m.sessions[i].TmuxPane
               /\ m'.sessions[j].ID # "")
                => Key(m'.sessions[j]) \in DOMAIN m'.pinned]_vars

\* the steps that sort the list: a discovery result, or the pin key on a selection
PinStep ==
    /\ Stepped /\ last'.msg.type = "key" /\ last'.msg.key = "pin"
    /\ m.mode = "Normal" /\ ~m.insertMode /\ HasSel(World)

SortStep == (Stepped /\ last'.msg.type = "discovered" /\ m.mode = "Normal") \/ PinStep

\* the model the step hands to the sort
SortInput ==
    IF last'.msg.type = "discovered" THEN discoveredUnsorted(World, last'.msg)
    ELSE togglePin(World)

PinnedFirst(sorted, pinned) ==
    \A i, j \in DOMAIN sorted :
       i < j => /\ Key(sorted[j]) \in DOMAIN pinned => Key(sorted[i]) \in DOMAIN pinned
                /\ (Key(sorted[i]) \in DOMAIN pinned /\ Key(sorted[j]) \in DOMAIN pinned)
                     => pinned[Key(sorted[i])] <= pinned[Key(sorted[j])]

SameMembers(s, t) ==
    Len(s) = Len(t) /\ \A x \in Range(s) \cup Range(t) :
      Cardinality({i \in DOMAIN s : s[i] = x}) = Cardinality({i \in DOMAIN t : t[i] = x})

\* C17: the sorted list places every session whose key is in the pin map before
\* every session whose key is not, and the pinned sessions are in ascending order
\* of their pin counter; this holds for the list the program's sort leaves and
\* for the result of SortSessions on the same input.
C17_PinnedFirstAscending ==
    [][SortStep
         => \A w \in {SortInput} :
              \A sorted \in {SortSessions(w.sessions, w.pinned, w.savedOrder)} :
                 /\ SameMembers(m'.sessions, w.sessions)
                 /\ PinnedFirst(m'.sessions, w.pinned)
                 /\ SameMembers(sorted, w.sessions)
                 /\ PinnedFirst(sorted, w.pinned)]_vars

\* two pinned sessions were exchanged by the sort and lead the list
C17_PinnedReordered ==
    /\ last.msg.type = "discovered"
    /\ Len(m.sessions) >= 3
    /\ m.sessions[1].TmuxPane = "%3" /\ m.sessions[2].TmuxPane = "%1"
    /\ Key(m.sessions[1]) \in DOMAIN m.pinned /\ Key(m.sessions[2]) \in DOMAIN m.pinned
    /\ m.pinned[Key(m.sessions[1])] < m.pinned[Key(m.sessions[2])]
    /\ Key(m.sessions[3]) \notin DOMAIN m.pinned

Unpinned(sessions, pinned) == SelectSeq(sessions, LAMBDA x : Key(x) \notin DOMAIN pinned)

\* known keys in the order of the Order list, absent keys after them ...
KnownThenAbsent(u, order) ==
    \A i, j \in DOMAIN u :
       i < j => /\ (orderIndex(order, Key(u[i])) >= 0 /\ orderIndex(order, Key(u[j])) >= 0)
                     => orderIndex(order, Key(u[i])) <= orderIndex(order, Key(u[j]))
                /\ ~(orderIndex(order, Key(u[i])) < 0 /\ orderIndex(order, Key(u[j])) >= 0)

\* ... and the absent keys in the order they had in the list before the sort
AbsentKeepOrder(u, pre, order) ==
    \A i, j \in DOMAIN u :
       (i < j /\ orderIndex(order, Key(u[i])) < 0 /\ orderIndex(order, Key(u[j])) < 0)
         => PosIn(pre, u[i]) < PosIn(pre, u[j])

OrderedUnpinned(sorted, w) ==
    /\ KnownThenAbsent(Unpinned(sorted, w.pinned), w.savedOrder)
    /\ AbsentKeepOrder(Unpinned(sorted, w.pinned), w.sessions, w.savedOrder)

\* C18: among the unpinned sessions of the sorted list, those whose key is in
\* the Order list are in the order of their positions in it, every session
\* whose key is absent from it comes after all of them, and the absent-key
\* sessions keep the relative order they had before the sort; this holds for
\* the list the program's sort leaves and for the result of SortSessions.
C18_UnpinnedBySavedOrder ==
    [][SortStep
         => \A w \in {SortInput} :
              \A sorted \in {SortSessions(w.sessions, w.pinned, w.savedOrder)} :
                 OrderedUnpinned(m'.sessions, w) /\ OrderedUnpinned(sorted, w)]_vars

MergeStep == Stepped /\ last'.msg.type = "discovered" /\ m.mode = "Normal"

\* the sidebar keys of sessions that the merge leaves out of the list
GoneSidebarKeys == ((DOMAIN m.pinned) \cup Range(m.savedOrder)) \ Keys(m'.sessions)

\* C21: after the merge of a discovery result no Pinned, Order or Group key is
\* left whose session is not in the list, and when a key was removed the sidebar
\* file holds the pruned state after that same step.
C21_PrunedAndSaved ==
    [][MergeStep
         => /\ DOMAIN m'.pinned \subseteq Keys(m'.sessions)
            /\ Range(m'.savedOrder) \subseteq Keys(m'.sessions)
            /\ DOMAIN groups' \subseteq Keys(m'.sessions)
            /\ GoneSidebarKeys # {}
                 => /\ sidebarFile' = [Pinned |-> m'.pinned, Order |-> m'.savedOrder]
                    /\ (DOMAIN sidebarFile'.Pinned) \cup Range(sidebarFile'.Order)
                         \subseteq Keys(m'.sessions)]_vars

\* the groups that have a member in the list
GroupsOf(w) ==
    {groupKeyAndName(w, w.sessions[i]) : i \in DOMAIN w.sessions} \ {NoGroup}

Members(w, gKey) == {i \in DOMAIN w.sessions : groupKeyAndName(w, w.sessions[i]) = gKey}

RowsOfGroup(items, gKey) == {k \in DOMAIN items : items[k].groupKey = gKey}

\* a group's rows: its header alone when collapsed, else its header and its members
GroupRows(items, w, gKey) ==
    /\ Cardinality({k \in RowsOfGroup(items, gKey) : items[k].isHeader}) = 1
    /\ Cardinality(RowsOfGroup(items, gKey))
         = IF gKey \in w.collapsedGroups THEN 1 ELSE 1 + Cardinality(Members(w, gKey))
    /\ gKey \notin w.collapsedGroups
         => {items[k].sessionIdx + 1 : k \in {r \in RowsOfGroup(items, gKey) : ~items[r].isHeader}}
              = Members(w, gKey)

\* C22: in the row list a collapsed group of N members contributes exactly one
\* row, its header, and an expanded group of N members exactly 1+N rows, its
\* header and one row per member; this holds for the rows of Model.buildViewItems
\* and for those of BuildViewItems.
C22_GroupRowCount ==
    \A w \in {World} :
       \A gKey \in GroupsOf(w) :
          /\ GroupRows(buildViewItems(w), w, gKey)
          /\ GroupRows(BuildViewItems(PreGrouped(w), w.collapsedGroups), w, gKey)

\* a collapsed group of two members shows one row while another group is expanded
C22_CollapsedAndExpanded ==
    /\ <<"custom", "g">> \in m.collapsedGroups
    /\ Cardinality(Members(World, <<"custom", "g">>)) = 2
    /\ Cardinality(RowsOfGroup(buildViewItems(World), <<"custom", "g">>)) = 1
    /\ <<"custom", "h">> \in GroupsOf(World) \ m.collapsedGroups
    /\ Cardinality(RowsOfGroup(buildViewItems(World), <<"custom", "h">>)) = 2

\* session s with the four fields of update u written over it
Overwritten(s, u) ==
    [s EXCEPT !.ID = u.SessionID, !.State = ParseState(u.State),
              !.CurrentTool = u.CurrentTool, !.UpdatedAt = u.UpdatedAt]

\* the updates that match session s by ID, and those that match it by pane
MatchByID(s, ups) == {k \in DOMAIN ups : s.ID # "" /\ ups[k].SessionID = s.ID}

MatchByPane(s, ups) == {k \in DOMAIN ups : s.TmuxPane # "" /\ ups[k].TmuxPane = s.TmuxPane}

MergedRight(s, ups, r) ==
    IF MatchByID(s, ups) # {} THEN \E k \in MatchByID(s, ups) : r = Overwritten(s, ups[k])
    ELSE IF MatchByPane(s, ups) # {}
         THEN \E k \in MatchByPane(s, ups) : r = Overwritten(s, ups[k])
         ELSE r = s

\* C23: MergeSessions leaves a session with no matching update unchanged in
\* every field, and for a session with a match, looked up by ID first and by
\* pane only when the ID finds nothing, it overwrites ID, State, CurrentTool and
\* UpdatedAt with the update's values and leaves the other fields alone.
C23_MergeSessions ==
    \A ss \in {m.sessions} : \A ups \in {ReadAll(disk)} :
       \A res \in {MergeSessions(ss, ups)} :
          /\ DOMAIN res = DOMAIN ss
          /\ \A i \in DOMAIN ss : MergedRight(ss[i], ups, res[i])

\* one session is matched by ID though another update names its pane, one is
\* matched by pane only, and one has no match; the match changes the session
C23_ThreeCases ==
    \E i, j, k \in DOMAIN m.sessions :
       /\ MatchByID(m.sessions[i], ReadAll(disk)) # {}
       /\ MatchByPane(m.sessions[i], ReadAll(disk)) \ MatchByID(m.sessions[i], ReadAll(disk)) # {}
       /\ MergeSessions(m.sessions, ReadAll(disk))[i] # m.sessions[i]
       /\ MatchByID(m.sessions[j], ReadAll(disk)) = {}
       /\ MatchByPane(m.sessions[j], ReadAll(disk)) # {}
       /\ MergeSessions(m.sessions, ReadAll(disk))[j].ID # m.sessions[j].ID
       /\ MatchByID(m.sessions[k], ReadAll(disk)) = {}
       /\ MatchByPane(m.sessions[k], ReadAll(disk)) = {}

\* the entries ReadAll is to return a record for: regular files with the
\* extension that can be opened and hold a whole document
Readable(f) ==
    /\ f \in DOMAIN files /\ Ext(f) = ".json"
    /\ files[f].kind = "file" /\ files[f].n = DataLen

\* C24: ReadAll returns exactly the records of the entries that can be opened,
\* parse and carry the extension, in directory order; no other entry makes the
\* read fail; and with the state directory absent it returns an empty list and
\* no error.
C24_ReadAllSkips ==
    rd.pc = "returned"
      => /\ DirSelf \notin DOMAIN files => rd.states = <<>> /\ ~rd.err
         /\ ~rd.err => \A fs \in {SelectSeq(DirNames, Readable)} :
                          rd.states = [i \in DOMAIN fs |-> files[fs[i]].rec]
         /\ rd.err => rd.states = <<>> /\ rd.entries = <<>>

\* a read returned one record from a directory that also holds half a document,
\* a file with another extension and a directory named like a state file
C24_SkippedThree ==
    /\ rd.pc = "returned" /\ ~rd.err /\ Len(rd.states) = 1
    /\ Path("a") \in DOMAIN files /\ files[Path("a")].n < DataLen
    /\ [id |-> "readme", ext |-> ".txt"] \in DOMAIN files
    /\ Path("subdir") \in DOMAIN files

\* C25: a state file whose object lacks the required fields produces no record
\* in the result of ReadAll: every record returned has a session id, a pane, a
\* state and a time.
C25_NoFieldlessRecord ==
    rd.pc = "returned"
      => \A i \in DOMAIN rd.states :
            /\ rd.states[i].SessionID # "" /\ rd.states[i].TmuxPane # ""
            /\ rd.states[i].State # "" /\ rd.states[i].UpdatedAt # 0

\* the records the watcher put on its channel in the step
Emitted == IF IsPrefix(Events, Events') THEN SubSeq(Events', Len(Events) + 1, Len(Events')) ELSE <<>>

\* C26: for each event the watcher takes it emits at most one record; a record
\* is emitted only for a create or write of a file with the extension, and it is
\* the record the directory holds under the event's path; an event on a file
\* without the extension or on a file that does not parse emits nothing.
C26_EmitsMatchingRecord ==
    [][TookEvent
         => \A ev \in {Head(fsQueue)} :
              /\ Events' = Events \o Emitted
              /\ Len(Emitted) <= 1
              /\ Emitted # <<>>
                   => /\ ev.op \in {"create", "write"} /\ ev.json
                      /\ Emitted[1].SessionID = ev.file
                      /\ Emitted[1] = disk[ev.file]
              /\ (~ev.json \/ disk[ev.file] = Malformed) => Emitted = <<>>]_vars

\* the watcher took the events of a malformed file and of a hook's write, and
\* only the hook's record is on the channel
C26_OneOfTwo ==
    /\ hooks = 2 /\ fsQueue = <<>>
    /\ disk["a"] = Malformed /\ disk["b"] \notin {NoRec, Malformed}
    /\ Events = <<disk["b"]>>
    /\ BagCardinality(inbox) = 0 /\ last.msg.type = "none"

\* the foreground commands the heuristic takes for the assistant
AssistantCmds == {"claude", "2.1.3"}

\* a record of the directory names pane p
Covered(p) == \E id \in DOMAIN disk : disk[id] # NoRec /\ disk[id].TmuxPane = p

\* C27: a discovery result holds exactly one session with empty ID and State
\* Unknown for each live pane that no record covers and whose command the
\* classifier accepts, no session for an uncovered pane whose command it
\* rejects, and no session with empty ID anywhere else.
C27_OneFallbackPerPane ==
    \A msg \in Discovered : \A p \in AllPanes :
       \A at \in {{i \in DOMAIN msg.sessions : msg.sessions[i].TmuxPane = p}} :
          IF panes[p] # "none" /\ ~Covered(p)
          THEN IF panes[p] \in AssistantCmds
               THEN /\ Cardinality(at) = 1
                    /\ \A i \in at : /\ msg.sessions[i].ID = ""
                                      /\ msg.sessions[i].State = StateUnknown
               ELSE at = {}
          ELSE \A i \in at : msg.sessions[i].ID # ""

\* the only live pane runs "2.1.3", no record exists, and the result is the one
\* fallback session; elsewhere a result leaves out a pane that runs a shell
C27_ScenarioC ==
    /\ \A id \in DOMAIN disk : disk[id] = NoRec
    /\ panes["%4"] = "2.1.3" /\ \A p \in AllPanes \ {"%4"} : panes[p] = "none"
    /\ \E msg \in Discovered :
          /\ Len(msg.sessions) = 1
          /\ msg.sessions[1].ID = "" /\ msg.sessions[1].TmuxPane = "%4"
          /\ msg.sessions[1].State = StateUnknown

\* C28: when the read of the state directory or of the pane inventory fails,
\* Discover returns an error and no sessions, never a part of the list; when
\* both succeed it returns the list and no error; and the message a failed
\* discovery leaves behind carries no sessions.
C28_DiscoveryFailsWhole ==
    /\ \A readOk \in BOOLEAN : \A panesOk \in BOOLEAN :
          \A r \in {Discover(disk, panes, clock, readOk, panesOk)} :
             /\ r.err = ~(readOk /\ panesOk)
             /\ r.err => r.sessions = <<>>
             /\ ~r.err => r.sessions = discover(disk, panes, clock)
    /\ \A msg \in DOMAIN inbox : msg.type = "err" => "sessions" \notin DOMAIN msg

\* a discovery failed while a record of the directory named a live pane
C28_FailedWithRecords ==
    /\ \E msg \in DOMAIN inbox : msg.type = "err"
    /\ Discovered = {}
    /\ \E id \in DOMAIN disk : disk[id] # NoRec /\ panes[disk[id].TmuxPane] # "none"

\* the hook subcommand alone: invocations that end early and invocations that write
NextHook == HookReturns \/ WriteOpen \/ WriteData \/ WriteFails \/ WriteRename

HookSpec == Init /\ [][NextHook]_vars

\* C29: every invocation of the hook subcommand exits with status 0, also
\* when its write of the state file fails.
C29_HookExitsZero == wr.exit \in {-1, 0}

\* ── Starting from files that are missing or do not decode ─────────────────
SidebarAtStart ==
    {FileMissing, FileCorrupt(EmptyMap),
     [Pinned |-> MapPut(EmptyMap, PaneKey("%2"), 1), Order |-> <<PaneKey("%1"), PaneKey("%2")>>]}

NamesAtStart ==
    {FileMissing, FileCorrupt(MapPut(EmptyMap, PaneKey("%1"), "n")),
     JsonFile(MapPut(EmptyMap, PaneKey("%1"), "n"))}

GroupsAtStart ==
    {FileMissing, FileCorrupt(MapPut(EmptyMap, PaneKey("%1"), "g")),
     JsonFile(MapPut(EmptyMap, PaneKey("%1"), "g"))}

InitLoad ==
    \E side \in SidebarAtStart : \E nf \in NamesAtStart : \E gf \in GroupsAtStart :
       InitFiles(NoDisk, StartPanes, side, nf, gf, EmptyMap)

LoadKeys == {"pin", "refresh"}

NextLoad == Press(LoadKeys) \/ ExecDiscover \/ Process

LoadSpec == InitLoad /\ [][NextLoad]_vars

\* the program has started and no message has been handled yet
JustLoaded == last.msg = NoMsg /\ inputs = 0

Unusable(file) == "kind" \in DOMAIN file /\ file.kind \in {"missing", "corrupt"}

\* C30: a store whose file is missing or does not decode when the program
\* starts is loaded as the default empty state (no pins, no saved order, pin
\* counter 0, no names, no groups), and the program starts without an error.
C30_LoadOrDefault ==
    JustLoaded =>
       /\ Unusable(sidebarFile)
             => m.pinned = EmptyMap /\ m.savedOrder = <<>> /\ m.pinCounter = 0
       /\ Unusable(home.names) => names = EmptyMap
       /\ Unusable(home.groups) => groups = EmptyMap
       /\ m.mode = "Normal" /\ ~m.err

\* the program started on a sidebar file and a names file that do not decode
\* and without a groups file, and its first discovery has run
C30_StartedOnCorrupt ==
    /\ JustLoaded
    /\ sidebarFile = FileCorrupt(EmptyMap)
    /\ home.names.kind = "corrupt" /\ home.names.data # EmptyMap
    /\ home.groups.kind = "missing"
    /\ \E msg \in DOMAIN inbox : msg.type = "discovered"

\* ── The stores while the user changes them ────────────────────────────────
PersistKeys == {"pin", "moveup", "movedown", "kill", "rename", "setgroup", "enter", "down"}

NextPersist == Press(PersistKeys) \/ PaneExits \/ ExecDiscover \/ Process

PersistSpec == Init /\ [][NextPersist]_vars

\* what a program started now would load from the three files
Reloaded ==
    [pinned |-> New(sidebarFile).pinned, savedOrder |-> New(sidebarFile).savedOrder,
     names |-> newStore(home.names), groups |-> newStore(home.groups)]

NoRepeat(seq) == \A i \in DOMAIN seq : \A j \in DOMAIN seq : seq[i] = seq[j] => i = j

\* C32: in one discovery pass git is run at most once for a project path,
\* however many sessions share the path.
C32_GitOncePerPath ==
    /\ NoRepeat(cachedBranchCalls(panes))
    /\ NoRepeat(branchCalls(disk, panes, clock))

\* both timers are armed: a tickCapture and a tickSessionRefresh are in flight
TimersArmed ==
    /\ \E c \in DOMAIN pending : c.kind = "tick"
    /\ \E c \in DOMAIN pending : c.kind = "refresh"

\* a capture command ran and failed: it is gone and has left no message
CaptureFailed ==
    /\ \E c \in DOMAIN pending : c.kind = "fetch" /\ pending' = BagRemove(pending, c)
    /\ inbox' = inbox

\* C33: a failed discovery or capture does not stop the program: the step
\* that handles the failure leaves the mode as it is and both timers armed,
\* and the next slow tick after a failed discovery runs the discovery again
\* (the next fast tick fetches the selected pane again) and re-arms its timer.
C33_FailureNonFatal ==
    [][/\ (Stepped /\ last'.msg.type = "err") => (TimersArmed' /\ m'.mode = m.mode)
       /\ CaptureFailed => TimersArmed'
       /\ (Stepped /\ last'.msg.type = "refresh" /\ m.err)
            => (Issued(discoverSessions) /\ Issued(tickSessionRefresh))
       /\ (Stepped /\ last'.msg.type = "tick")
            => /\ Issued(tickCapture)
               /\ SelPane(World) # "" => Issued(fetchCapture(SelPane(World)))]_vars

\* ── The watcher subscription while the user changes modes ─────────────────
WaitKeys == {"filter", "esc", "rename"}

NextWait == Press(WaitKeys) \/ HookWrite \/ LoopEvent \/ ExecWait \/ Process

WaitSpec == Init /\ [][NextWait]_vars

\* the waits for a watcher event that are outstanding: the commands in flight
\* and the records they have delivered that Update has not handled yet
Outstanding ==
    BagCardinality([c \in {x \in DOMAIN pending : x.kind = "wait"} |-> pending[c]])
      + BagCardinality([x \in {y \in DOMAIN inbox : y.type = "stateUpdate"} |-> inbox[x]])

\* C34: while Watcher.Events is open exactly one wait for a watcher event is
\* outstanding, in every mode: a record taken from the channel is handled by
\* issuing the wait again, once.
C34_OneWaitOutstanding == ~watcher.eventsClosed => Outstanding = 1

\* the commands of one kind that are in flight
InFlightOf(kind) ==
    BagCardinality([c \in {x \in DOMAIN pending : x.kind = kind} |-> pending[c]])

\* C35: at every point of a run exactly one fast-timer tick and exactly one
\* slow-timer tick are pending, whatever modes were entered and left and
\* whatever was launched.
C35_OneTimerEach == InFlightOf("tick") = 1 /\ InFlightOf("refresh") = 1

\* ── Kills while discoveries are in flight ─────────────────────────────────
\* no pane exits on its own here: a pane that is gone was killed by the user
KillKeys == {"kill", "refresh", "down"}

NextKill == Press(KillKeys) \/ ExecDiscover \/ Process

KillSpec == Init /\ [][NextKill]_vars

\* C36: once a pane has been killed through the Kill action, no message that
\* is processed later puts a session for that pane back into the list, not
\* even a discovery result that was computed before the kill.
C36_KilledStaysGone == \A i \in DOMAIN m.sessions : panes[m.sessions[i].TmuxPane] # "none"

\* ── Watcher records that wait while newer records arrive ──────────────────
NextStale == HookWrite \/ Tock \/ LoopEvent \/ ExecWait \/ ExecDiscover \/ Process

StaleSpec == Init /\ [][NextStale]_vars

\* C37: the state held for a session never goes back from a record written
\* later to a record written earlier: whatever message is processed, a
\* session that had the fields of a record keeps an UpdatedAt that is not
\* earlier than before.
C37_NeverBackInTime ==
    [][\A i \in DOMAIN m.sessions : \A j \in DOMAIN m'.sessions :
          (m.sessions[i].ID # "" /\ m'.sessions[j].ID = m.sessions[i].ID)
            => m'.sessions[j].UpdatedAt >= m.sessions[i].UpdatedAt]_vars

\* ── Two writers of one state file ─────────────────────────────────────────
NextRace == RaceOpen \/ RaceData \/ RaceRename

RaceSpec == Init /\ [][NextRace]_vars

BothReturned == \A w \in Writers : race.pc[w] \in {"done", "failed"}

\* C38: when two Write calls for one session id have both returned, the
\* state file exists and holds the record of one of them in full.
C38_OneRecordInFull ==
    BothReturned => (race.final # 0 /\ race.data[race.final] \in {Full(w) : w \in Writers})

\* ── A filter that stays on while the list changes ─────────────────────────
FilterKeys == {"filter", "type", "enter", "kill", "refresh"}

NextFilter == Press(FilterKeys) \/ PaneExits \/ ExecDiscover \/ Process

FilterSpec == Init /\ [][NextFilter]_vars

\* C39: while a filter query is active every index of the filtered list is an
\* index into the session list and refers to a session that matches the
\* query, also after a discovery result or a kill has changed the list.
C39_FilteredValid ==
    m.filterQuery # ""
      => \A k \in DOMAIN m.filtered :
            /\ m.filtered[k] >= 0 /\ m.filtered[k] < Len(m.sessions)
            /\ Matches(m.filterQuery, m.sessions[m.filtered[k] + 1])

\* what a row list shows: headers with key, count and aggregate state, and
\* session rows with their index
Shown(items) ==
    [k \in DOMAIN items |->
       IF items[k].isHeader
       THEN <<"header", items[k].groupKey, items[k].count, items[k].aggState>>
       ELSE <<"row", items[k].groupKey, items[k].sessionIdx>>]

\* C40: for the same session list, group assignment and collapsed set,
\* BuildViewItems and Model.buildViewItems give the same sequence of header
\* rows and session rows, also when the members of a group are not adjacent.
C40_SameRows ==
    \A w \in {World} :
       Shown(buildViewItems(w)) = Shown(BuildViewItems(PreGrouped(w), w.collapsedGroups))
====
